---------------------------- MODULE Spec2Model ----------------------------
(***************************************************************************)
(* A model of Grok_CLI: the sandbox guard (sandbox.py), the file tools     *)
(* (tools.py), the built-in shell commands (commands/shell.py), the TOON   *)
(* codec and the session compressor (session.py) and the conversation      *)
(* loop (agent.py), the response cache (cache.py), the model provider      *)
(* (providers/grok.py) and heavy mode (commands/heavy.py).                 *)
(*                                                                         *)
(* A canonical absolute path is a sequence of names (<<>> is "/").  A path *)
(* argument as typed by the user or sent by the model is a record          *)
(* [abs, parts]; parts may hold "..".                                      *)
(***************************************************************************)
EXTENDS Integers, Sequences, FiniteSets, TLC

VARIABLES
    LAUNCH_DIR,              \* sandbox.LAUNCH_DIR
    CURRENT_DIR,             \* sandbox.CURRENT_DIR
    DANGEROUS_MODE_ENABLED,  \* sandbox.DANGEROUS_MODE_ENABLED
    fs,                      \* the filesystem: canonical path -> node
    pc,                      \* where the process is: "idle" or blocked in a prompt
    pending,                 \* locals of the tool call blocked in a prompt
    call,                    \* what the last call did and returned
    nmut,                    \* number of filesystem-changing calls so far
    cdata,                   \* session.py: the argument of the call
    cmode,                   \* compress_session: the mode argument
    cout,                    \* session.py: what the last call returned
    self_messages,           \* Agent.messages
    last_response,           \* Agent.last_response
    total_tokens,            \* Agent.total_tokens
    context_file,            \* the text of context.toon (empty when never saved)
    messages,                \* Agent.chat: the list sent to the model
    iteration,               \* Agent.chat: iteration
    tool_calls,              \* Agent.chat: assistant_message.tool_calls
    tc,                      \* Agent.chat: the tool call the for loop is at
    apc,                     \* where Agent.chat is
    chat_return,             \* what the last Agent.chat returned
    nchats,                  \* number of Agent.chat calls so far
    log,                     \* the model calls and tool runs of the chat call
    cache_dir,               \* cache.py: the files of ~/.grok/cache, oldest first
    clock,                   \* the day datetime.now() and time.time() give
    cache_call,              \* cache.py: what the last call did and returned
    attempt,                 \* GrokProvider.complete: attempt
    ppc,                     \* where GrokProvider.complete is
    api_log,                 \* what the API calls of the complete call gave
    delays,                  \* the delays it slept, in milliseconds
    complete_ret,            \* what the last GrokProvider.complete returned or raised
    futures,                 \* _run_parallel_agents: the future of each agent
    hpc,                     \* where heavy_command is
    responses,               \* _run_parallel_agents: responses, in insertion order
    meta_messages,           \* _run_meta_resolver: the agents' output in its prompt
    heavy_ret                \* what the last heavy_command returned or raised

sandboxVars == <<LAUNCH_DIR, CURRENT_DIR, DANGEROUS_MODE_ENABLED>>
fsVars == <<sandboxVars, fs, pc, pending, call, nmut>>
compressVars == <<cdata, cmode, cout>>
agentVars == <<self_messages, last_response, total_tokens, context_file, messages,
               iteration, tool_calls, tc, apc, chat_return, nchats, log>>
cacheVars == <<cache_dir, clock, cache_call>>
providerVars == <<attempt, ppc, api_log, delays, complete_ret>>
heavyVars == <<futures, hpc, responses, meta_messages, heavy_ret>>
serviceVars == <<cacheVars, providerVars, heavyVars>>
appVars == <<fsVars, compressVars, agentVars>>
sessionVars == <<compressVars, agentVars, serviceVars>>
vars == <<fsVars, sessionVars>>

(***************************************************************************)
(* Bounds of the model.                                                    *)
(***************************************************************************)
MaxMutations == 1   \* filesystem-changing calls in one behaviour
MaxDepth == 4       \* depth of the paths a call may create

(***************************************************************************)
(* Paths and the filesystem.                                               *)
(***************************************************************************)
Root == <<>>
ProjDir == <<"proj">>
EtcDir == <<"etc">>

\* os.getcwd(): the program never calls os.chdir, so it is the directory the
\* process was started in.
OsCwd == ProjDir

Parent(p) == IF p = <<>> THEN <<>> ELSE SubSeq(p, 1, Len(p) - 1)

\* PurePath.relative_to(root) succeeds: root is p or an ancestor of p,
\* compared component by component.
IsPrefix(root, p) == Len(root) <= Len(p) /\ SubSeq(p, 1, Len(root)) = root

DirNode == [kind |-> "dir", content |-> <<>>, target |-> <<>>]
FileNode(c) == [kind |-> "file", content |-> c, target |-> <<>>]
LinkNode(t) == [kind |-> "link", content |-> <<>>, target |-> t]

Kind(F, p) == IF p \in DOMAIN F THEN F[p].kind ELSE "none"

\* os.path.realpath, not strict: ".." drops the last component of what is
\* resolved so far, a symlink is replaced by its (absolute) target, a name
\* that does not exist is appended as it is.
RECURSIVE ResolveFrom(_, _, _)
ResolveFrom(F, cur, rest) ==
    IF rest = <<>> THEN cur
    ELSE LET name == Head(rest)
             np == Append(cur, name)
         IN IF name = ".." THEN ResolveFrom(F, Parent(cur), Tail(rest))
            ELSE IF Kind(F, np) = "link"
                 THEN ResolveFrom(F, <<>>, F[np].target \o Tail(rest))
                 ELSE ResolveFrom(F, np, Tail(rest))

\* base / path: an absolute path replaces the base.
Join(base, path) == IF path.abs THEN path.parts ELSE base \o path.parts

\* Path.resolve() of base / path.
Resolve(F, base, path) == ResolveFrom(F, <<>>, Join(base, path))

Rel(parts) == [abs |-> FALSE, parts |-> parts]
Abs(parts) == [abs |-> TRUE, parts |-> parts]


(***************************************************************************)
(* The inputs: path arguments, file contents, prompt answers.              *)
(***************************************************************************)
InputPaths ==
    { Rel(<<>>),                  \* .
      Rel(<<"f">>),               \* f
      Rel(<<"sub">>),             \* sub
      Rel(<<"d.json">>),          \* d.json
      Rel(<<"new", "g">>),        \* new/g   (no such directory)
      Rel(<<"new", "d.json">>),   \* new/d.json
      Rel(<<"f", "g">>),          \* f/g     (under a regular file)
      Rel(<<"..", "etc", "f">>),  \* ../etc/f
      Rel(<<"sub", "..", "f">>),  \* sub/../f
      Rel(<<"lnk">>),             \* lnk     (a symlink to /etc)
      Abs(<<"etc">>),             \* /etc
      Abs(<<"proj", "sub">>) }    \* /proj/sub

\* File contents are sequences of characters.
TextAb == <<"a", "b">>
TextJson == <<"{", "}">>
TextAbcAbc == <<"a", "b", "c", "a", "b", "c">>

\* A character outside ASCII: "e-acute" stands for U+00E9, which UTF-8 writes
\* as two bytes.
TextAccent == <<"e-acute", "b">>
Contents == {TextAb, TextJson, TextAccent}

\* The path arguments of a command that takes several.
PathLists ==
    {<<p>> : p \in InputPaths} \cup
    {<<p, q>> : p \in {Rel(<<"new", "g">>), Abs(<<"etc">>)},
                q \in {Rel(<<"sub">>), Rel(<<"f">>)}}

\* What the user types at init_sandbox's prompt.
InitAnswers == {"YES", "yes", "n"}

\* The filesystem the process is started in.
InitFs ==
    (Root :> DirNode) @@
    (EtcDir :> DirNode) @@
    (<<"etc", "f">> :> FileNode(TextAb)) @@
    (ProjDir :> DirNode) @@
    (<<"proj", "f">> :> FileNode(TextAb)) @@
    (<<"proj", "sub">> :> DirNode) @@
    (<<"proj", "sub", "f">> :> FileNode(TextAbcAbc)) @@
    (<<"proj", "d.json">> :> FileNode(TextJson)) @@
    (<<"proj", "lnk">> :> LinkNode(EtcDir))

(***************************************************************************)
(* What a call did: the model's record of the last API call.               *)
(***************************************************************************)
\* A tool result: msg is the text of "result" or "error" without its
\* numbers and paths, n is the number the text of "result" names.
NoResult ==
    [success |-> FALSE, has_result |-> FALSE, has_error |-> FALSE, msg |-> "", n |-> 0]
Success(msg) ==
    [success |-> TRUE, has_result |-> TRUE, has_error |-> FALSE, msg |-> msg, n |-> 0]
Failure(msg) ==
    [success |-> FALSE, has_result |-> FALSE, has_error |-> TRUE, msg |-> msg, n |-> 0]

\* f"Successfully wrote {n} bytes to ..." and f"Successfully edited ...
\* ({n} replacement(s))".
SuccessCount(msg, n) == [Success(msg) EXCEPT !.n = n]

NoCall ==
    [ op |-> "none",        \* the function called
      canon |-> <<>>,       \* the canonical path of its path argument
      auto |-> FALSE,       \* its auto_confirm argument
      args |-> <<>>,        \* its text arguments
      before |-> <<>>,      \* the target's kind and content when it was called
      raised |-> "",        \* the exception that left the call ("" if none)
      returned |-> FALSE,   \* the call returned a value
      result |-> NoResult,  \* the tagged result it returned
      unchecked |-> {},     \* canonical paths accessed with no check before
      changed |-> {},       \* canonical paths whose node the call changed
      prompted |-> FALSE,   \* the call showed a prompt
      accepted |-> FALSE,   \* the user accepted at a prompt of the call
      declined |-> FALSE ]  \* the user declined at a prompt of the call

\* What is at path p: its kind, and its content if it is a file.
Before(F, p) == [kind |-> Kind(F, p),
                 content |-> IF Kind(F, p) = "file" THEN F[p].content ELSE <<>>]

\* The paths whose node differs between two filesystems.
Changed(F, G) ==
    {p \in (DOMAIN F) \cup (DOMAIN G) :
        \/ p \notin DOMAIN F
        \/ p \notin DOMAIN G
        \/ F[p] # G[p]}

(***************************************************************************)
(* sandbox.py                                                              *)
(***************************************************************************)
\* resolved.relative_to(LAUNCH_DIR) does not raise ValueError.
WithinLaunchDir(resolved) == IsPrefix(LAUNCH_DIR, resolved)

\* check_path_allowed: the resolved path, and whether it is returned (ok) or
\* PermissionError is raised.
CheckPathAllowed(F, path) ==
    LET resolved == Resolve(F, CURRENT_DIR, path)
    IN [resolved |-> resolved,
        ok |-> DANGEROUS_MODE_ENABLED \/ WithinLaunchDir(resolved)]

\* set_current_dir: Path.resolve() of a relative path is taken from the
\* process's working directory, not from CURRENT_DIR.
SetCurrentDir(F, path) ==
    LET resolved == Resolve(F, OsCwd, path)
    IN [resolved |-> resolved,
        ok |-> DANGEROUS_MODE_ENABLED \/ WithinLaunchDir(resolved)]

Idle == pc = "idle"

\* init_sandbox(dangerous), with the answer typed at its prompt.  Path.cwd()
\* raises FileNotFoundError when the working directory has been removed.
InitSandbox(dangerous, answer) ==
    /\ Idle
    /\ IF Kind(fs, OsCwd) # "dir"
       THEN /\ call' = [NoCall EXCEPT !.op = "init_sandbox", !.raised = "FileNotFoundError"]
            /\ UNCHANGED sandboxVars
       ELSE /\ LAUNCH_DIR' = Resolve(fs, OsCwd, Rel(<<>>))
            /\ CURRENT_DIR' = LAUNCH_DIR'
            /\ DANGEROUS_MODE_ENABLED' =
                  IF dangerous /\ answer = "YES" THEN TRUE ELSE DANGEROUS_MODE_ENABLED
            /\ call' = [NoCall EXCEPT !.op = "init_sandbox",
                                      !.prompted = dangerous,
                                      !.accepted = dangerous /\ answer = "YES",
                                      !.returned = TRUE,
                                      !.declined = dangerous /\ answer # "YES"]
    /\ pc' = "returned"
    /\ UNCHANGED <<fs, pending, nmut, sessionVars>>

\* A direct call of check_path_allowed(path).
CheckPathAllowedCall(path) ==
    /\ Idle
    /\ LET c == CheckPathAllowed(fs, path)
       IN call' = [NoCall EXCEPT !.op = "check_path_allowed",
                                 !.canon = c.resolved,
                                 !.raised = IF c.ok THEN "" ELSE "PermissionError",
                                 !.returned = c.ok]
    /\ pc' = "returned"
    /\ UNCHANGED <<sandboxVars, fs, pending, nmut, sessionVars>>

\* A direct call of set_current_dir(path).
SetCurrentDirCall(path) ==
    /\ Idle
    /\ LET c == SetCurrentDir(fs, path)
       IN /\ CURRENT_DIR' = IF c.ok THEN c.resolved ELSE CURRENT_DIR
          /\ call' = [NoCall EXCEPT !.op = "set_current_dir",
                                    !.canon = c.resolved,
                                    !.raised = IF c.ok THEN "" ELSE "PermissionError",
                                    !.returned = c.ok]
    /\ pc' = "returned"
    /\ UNCHANGED <<LAUNCH_DIR, DANGEROUS_MODE_ENABLED, fs, pending, nmut, sessionVars>>


(***************************************************************************)
(* Filesystem operations as pathlib and shutil do them.                    *)
(***************************************************************************)
Descendants(F, p) == {q \in DOMAIN F : IsPrefix(p, q)}
Children(F, p) == {q \in DOMAIN F : Len(q) = Len(p) + 1 /\ IsPrefix(p, q)}
Restrict(F, S) == [q \in S |-> F[q]]

\* Path.mkdir(parents=True, exist_ok=True) succeeds: no component of d is
\* something other than a directory.
MkdirParentsOk(F, d) ==
    \A k \in 0..Len(d) : Kind(F, SubSeq(d, 1, k)) \in {"dir", "none"}
MkdirParents(F, d) ==
    [q \in (DOMAIN F) \cup {SubSeq(d, 1, k) : k \in 0..Len(d)} |->
        IF q \in DOMAIN F THEN F[q] ELSE DirNode]

\* Path.write_text succeeds: the parent is a directory and the path is not one.
WriteTextOk(F, p) == Kind(F, Parent(p)) = "dir" /\ Kind(F, p) \in {"none", "file"}
WriteText(F, p, c) ==
    [q \in (DOMAIN F) \cup {p} |-> IF q = p THEN FileNode(c) ELSE F[q]]

(***************************************************************************)
(* validators.py: validate_file picks the validator by the suffix of the   *)
(* file name; of the validators only the JSON one is modelled.             *)
(***************************************************************************)
JsonNames == {"d.json"}
HasValidator(path) ==
    path.parts # <<>> /\ path.parts[Len(path.parts)] \in JsonNames
\* json.loads accepts the content.
ValidJson(c) == c = TextJson
\* "none": no validator; "valid"; "errors": has_errors.
ValidateFile(c, path) ==
    IF ~HasValidator(path) THEN "none"
    ELSE IF ValidJson(c) THEN "valid" ELSE "errors"

(***************************************************************************)
(* str.count, str.replace and the in operator on strings.                  *)
(***************************************************************************)
Contains(s, old) ==
    \E i \in 1..(Len(s) - Len(old) + 1) : SubSeq(s, i, i + Len(old) - 1) = old

RECURSIVE CountOcc(_, _)
CountOcc(s, old) ==
    IF old = <<>> THEN Len(s) + 1
    ELSE IF Len(s) < Len(old) THEN 0
    ELSE IF SubSeq(s, 1, Len(old)) = old
         THEN 1 + CountOcc(SubSeq(s, Len(old) + 1, Len(s)), old)
         ELSE CountOcc(Tail(s), old)

\* s.replace(old, new, 1).
ReplaceFirst(s, old, new) ==
    IF ~Contains(s, old) THEN s
    ELSE LET i == CHOOSE j \in 1..(Len(s) - Len(old) + 1) :
                      /\ SubSeq(s, j, j + Len(old) - 1) = old
                      /\ \A h \in 1..(j - 1) : SubSeq(s, h, h + Len(old) - 1) # old
         IN SubSeq(s, 1, i - 1) \o new \o SubSeq(s, i + Len(old), Len(s))

RECURSIVE ReplaceAll(_, _, _)
ReplaceAll(s, old, new) ==
    IF old = <<>>
    THEN new \o (IF s = <<>> THEN <<>> ELSE <<Head(s)>> \o ReplaceAll(Tail(s), old, new))
    ELSE IF Len(s) < Len(old) THEN s
    ELSE IF SubSeq(s, 1, Len(old)) = old
         THEN new \o ReplaceAll(SubSeq(s, Len(old) + 1, Len(s)), old, new)
         ELSE <<Head(s)>> \o ReplaceAll(Tail(s), old, new)

(***************************************************************************)
(* tools.py                                                                *)
(***************************************************************************)
\* The argument set the model sent: complete, a required key missing
\* (KeyError), or a value of the wrong type (TypeError).
ArgStates == {"ok", "missing", "wrong_type"}
ArgError(a) == IF a = "missing" THEN "KeyError" ELSE "TypeError"

\* The answers at a y/n(/e) prompt; "EOF" is the end of the input (EOFError).
WriteAnswers == {"y", "n", "e", "EOF"}
ConfirmAnswers == {"y", "n", "EOF"}

OldTexts == {<<"{">>, <<"b">>, <<"z">>, <<"a", "b", "c">>, <<>>}
NewTexts == {<<>>, <<"b", "a">>, <<"X">>}

NoPending ==
    [ tool |-> "none", path |-> Rel(<<>>), orig |-> Rel(<<>>), abs_path |-> <<>>,
      content |-> <<>>, validation |-> "none", auto |-> FALSE, count |-> 0 ]

\* execute_tool with the first except clause only.
CaughtPermissionOnly(exc) == exc = "PermissionError"

\* execute_tool's except clauses: PermissionError, then Exception.
Caught(exc) == exc \in {"PermissionError", "KeyError", "TypeError", "EOFError",
                        "IsADirectoryError", "FileExistsError", "NotADirectoryError"}

\* The filesystem-changing calls of a behaviour are bounded, and so is the
\* depth of what they create.
MayMutate == nmut < MaxMutations
InDepth(F) == \A p \in DOMAIN F : Len(p) <= MaxDepth

\* execute_tool returns: the tool function returned `result`, or raised `exc`.
ToolDone(c, exc, result, F2) ==
    /\ InDepth(F2)
    /\ fs' = F2
    /\ nmut' = IF F2 # fs THEN nmut + 1 ELSE nmut
    /\ pc' = "returned"
    /\ pending' = NoPending
    /\ call' = [c EXCEPT
            !.raised = IF exc # "" /\ ~Caught(exc) THEN exc ELSE "",
            !.returned = (exc = "" \/ Caught(exc)),
            !.result = IF exc = "" THEN result
                       ELSE IF Caught(exc) THEN Failure(exc) ELSE NoResult,
            !.changed = c.changed \cup Changed(fs, F2)]
    /\ UNCHANGED <<sandboxVars, sessionVars>>

\* The tool function blocks in a prompt.
ToolBlocks(c, where, p, F2) ==
    /\ InDepth(F2)
    /\ fs' = F2
    /\ nmut' = IF F2 # fs THEN nmut + 1 ELSE nmut
    /\ pc' = where
    /\ pending' = p
    /\ call' = [c EXCEPT !.prompted = TRUE,
                         !.changed = c.changed \cup Changed(fs, F2)]
    /\ UNCHANGED <<sandboxVars, sessionVars>>

\* execute_tool with a tool name that is none of the four.
ExecUnknownTool ==
    /\ Idle
    /\ ToolDone([NoCall EXCEPT !.op = "unknown_tool"], "", Failure("Unknown tool"), fs)

\* execute_tool("read_file", ...): tool_read_file.
ExecReadFile(a, path) ==
    /\ Idle
    /\ a # "ok" => path = Rel(<<>>)
    /\ LET c0 == [NoCall EXCEPT !.op = "read_file"]
           chk == CheckPathAllowed(fs, path)
       IN IF a # "ok" THEN ToolDone(c0, ArgError(a), NoResult, fs)
          ELSE IF ~chk.ok THEN ToolDone(c0, "PermissionError", NoResult, fs)
          ELSE IF Kind(fs, chk.resolved) = "none"
               THEN ToolDone(c0, "", Failure("File not found"), fs)
          ELSE IF Kind(fs, chk.resolved) # "file"
               THEN ToolDone(c0, "", Failure("Not a file"), fs)
          ELSE ToolDone(c0, "", Success("content"), fs)


\* Path.is_dir() and Path.stat() follow a symlink: what listing the entries
\* of directory d touches beyond d's own entries.
LinkTargets(F, d) ==
    {ResolveFrom(F, <<>>, q) : q \in {r \in Children(F, d) : Kind(F, r) = "link"}}

\* The accessed paths that no checked path is, or is an ancestor of.
Uncovered(checked, accessed) ==
    {p \in accessed : ~\E c \in checked : IsPrefix(c, p)}

\* execute_tool("list_files", ...): tool_list_files; path defaults to ".".
ExecListFiles(a, path) ==
    /\ Idle
    /\ a # "ok" => path = Rel(<<>>)
    /\ LET c0 == [NoCall EXCEPT !.op = "list_files"]
           chk == CheckPathAllowed(fs, path)
       IN IF a = "wrong_type" THEN ToolDone(c0, ArgError(a), NoResult, fs)
          ELSE IF ~chk.ok THEN ToolDone(c0, "PermissionError", NoResult, fs)
          ELSE IF Kind(fs, chk.resolved) = "none"
               THEN ToolDone(c0, "", Failure("Directory not found"), fs)
          ELSE IF Kind(fs, chk.resolved) # "dir"
               THEN ToolDone(c0, "", Failure("Not a directory"), fs)
          ELSE ToolDone([c0 EXCEPT !.unchecked =
                            Uncovered({chk.resolved}, LinkTargets(fs, chk.resolved))],
                        "", Success("listing"), fs)

\* tool_write_file from "Create parent directories if needed" on.
WriteFinish(c, p) ==
    IF ~MkdirParentsOk(fs, Parent(p.abs_path))
    THEN ToolDone(c, "FileExistsError", NoResult, fs)
    ELSE LET F1 == MkdirParents(fs, Parent(p.abs_path))
         IN IF p.validation = "errors" /\ ~p.auto
            THEN ToolBlocks(c, "write_verrs", p, F1)
            ELSE IF ~WriteTextOk(F1, p.abs_path)
                 THEN ToolDone(c, "IsADirectoryError", NoResult, F1)
                 ELSE ToolDone(c, "", SuccessCount("wrote", Len(p.content)),
                               WriteText(F1, p.abs_path, p.content))

\* execute_tool("write_file", ...): tool_write_file up to its first prompt.
ExecWriteFile(a, path, content, auto) ==
    /\ Idle
    /\ MayMutate
    /\ a # "ok" => path = Rel(<<>>)
    /\ LET chk == CheckPathAllowed(fs, path)
           c0 == [NoCall EXCEPT !.op = "write_file", !.auto = auto,
                                !.canon = chk.resolved,
                                !.args = [content |-> content],
                                !.before = Before(fs, chk.resolved)]
           p == [NoPending EXCEPT !.tool = "write_file", !.path = path, !.orig = path,
                                  !.abs_path = chk.resolved, !.content = content,
                                  !.validation = ValidateFile(content, path),
                                  !.auto = auto]
       IN IF a # "ok" THEN ToolDone(c0, ArgError(a), NoResult, fs)
          ELSE IF ~chk.ok THEN ToolDone(c0, "", Failure("PermissionError"), fs)
          ELSE IF Kind(fs, chk.resolved) = "dir"
               THEN ToolDone(c0, "IsADirectoryError", NoResult, fs)
          ELSE IF ~auto THEN ToolBlocks(c0, "write_prompt", p, fs)
          ELSE WriteFinish(c0, p)

\* The answer at "Save as ...?" [y/n/e]; for "e", the new file name typed.
WritePromptAnswer(ans, new_name) ==
    /\ pc = "write_prompt"
    /\ ans # "e" => new_name = pending.path
    /\ CASE ans = "n" ->
              ToolDone([call EXCEPT !.declined = TRUE], "", Failure("User cancelled"), fs)
         [] ans = "EOF" -> ToolDone(call, "EOFError", NoResult, fs)
         [] ans = "y" -> WriteFinish([call EXCEPT !.accepted = TRUE], pending)
         [] ans = "e" ->
              LET chk == CheckPathAllowed(fs, new_name)
              IN IF new_name = pending.path \/ ~chk.ok
                 THEN ToolBlocks(call, "write_prompt", pending, fs)
                 ELSE ToolBlocks(
                        call,
                        "write_prompt",
                        [pending EXCEPT
                            !.path = new_name,
                            !.abs_path = chk.resolved,
                            !.validation =
                                IF HasValidator(new_name) # HasValidator(pending.orig)
                                THEN ValidateFile(pending.content, new_name)
                                ELSE pending.validation],
                        fs)

\* The answer at "Save despite validation errors?".
WriteVerrsAnswer(ans) ==
    /\ pc = "write_verrs"
    /\ CASE ans = "n" ->
              ToolDone([call EXCEPT !.declined = TRUE], "", Failure("Validation failed"), fs)
         [] ans = "EOF" -> ToolDone(call, "EOFError", NoResult, fs)
         [] ans = "y" ->
              IF ~WriteTextOk(fs, pending.abs_path)
              THEN ToolDone([call EXCEPT !.accepted = TRUE], "IsADirectoryError", NoResult, fs)
              ELSE ToolDone([call EXCEPT !.accepted = TRUE], "",
                            SuccessCount("wrote", Len(pending.content)),
                            WriteText(fs, pending.abs_path, pending.content))

\* tool_edit_file's "Write file".
EditFinish(c, p) ==
    ToolDone(c, "", SuccessCount("edited", p.count), WriteText(fs, p.abs_path, p.content))

\* execute_tool("edit_file", ...): tool_edit_file up to its prompt.
ExecEditFile(a, path, old_text, new_text, auto) ==
    /\ Idle
    /\ MayMutate
    /\ a # "ok" => path = Rel(<<>>)
    /\ LET chk == CheckPathAllowed(fs, path)
           c0 == [NoCall EXCEPT !.op = "edit_file", !.auto = auto,
                                !.canon = chk.resolved,
                                !.args = [old_text |-> old_text, new_text |-> new_text],
                                !.before = Before(fs, chk.resolved)]
           content == fs[chk.resolved].content
           new_content == ReplaceAll(content, old_text, new_text)
           p == [NoPending EXCEPT !.tool = "edit_file", !.path = path, !.orig = path,
                                  !.abs_path = chk.resolved, !.content = new_content,
                                  !.validation = ValidateFile(new_content, path),
                                  !.auto = auto,
                                  !.count = CountOcc(content, old_text)]
       IN IF a # "ok" THEN ToolDone(c0, ArgError(a), NoResult, fs)
          ELSE IF ~chk.ok THEN ToolDone(c0, "PermissionError", NoResult, fs)
          ELSE IF Kind(fs, chk.resolved) = "none"
               THEN ToolDone(c0, "", Failure("File not found"), fs)
          ELSE IF Kind(fs, chk.resolved) = "dir"
               THEN ToolDone(c0, "IsADirectoryError", NoResult, fs)
          ELSE IF ~Contains(content, old_text)
               THEN ToolDone(c0, "", Failure("Text not found"), fs)
          ELSE IF ~auto THEN ToolBlocks(c0, "edit_confirm", p, fs)
          ELSE EditFinish(c0, p)

\* tool_edit_file going on to "Write file" whatever the answer.
EditConfirmIgnored(ans) ==
    /\ pc = "edit_confirm"
    /\ EditFinish(IF ans = "y" THEN [call EXCEPT !.accepted = TRUE]
                  ELSE [call EXCEPT !.declined = TRUE], pending)

\* tool_edit_file with "Write file" moved before the prompts.
EditConfirmWritesFirst(ans) ==
    /\ pc = "edit_confirm"
    /\ CASE ans = "n" ->
              ToolDone([call EXCEPT !.declined = TRUE], "",
                       Failure(IF pending.validation = "errors"
                               THEN "Validation failed" ELSE "User cancelled"),
                       WriteText(fs, pending.abs_path, pending.content))
         [] ans = "EOF" -> ToolDone(call, "EOFError", NoResult, fs)
         [] ans = "y" -> EditFinish([call EXCEPT !.accepted = TRUE], pending)

\* The answer at "Apply edit anyway despite errors?" or "Apply this edit?".
EditConfirmAnswer(ans) ==
    /\ pc = "edit_confirm"
    /\ CASE ans = "n" ->
              ToolDone([call EXCEPT !.declined = TRUE], "",
                       Failure(IF pending.validation = "errors"
                               THEN "Validation failed" ELSE "User cancelled"), fs)
         [] ans = "EOF" -> ToolDone(call, "EOFError", NoResult, fs)
         [] ans = "y" -> EditFinish([call EXCEPT !.accepted = TRUE], pending)


(***************************************************************************)
(* commands/shell.py.  A command's exception, if any, is caught by the     *)
(* REPL (repl.py, "Handle shell commands").                                *)
(***************************************************************************)
Last(p) == p[Len(p)]

ShellDone(c, exc, F2, cwd2) ==
    /\ InDepth(F2)
    /\ fs' = F2
    /\ nmut' = IF F2 # fs THEN nmut + 1 ELSE nmut
    /\ CURRENT_DIR' = cwd2
    /\ call' = [c EXCEPT !.raised = exc, !.returned = (exc = ""),
                         !.changed = Changed(fs, F2)]
    /\ pc' = "returned"
    /\ UNCHANGED <<LAUNCH_DIR, DANGEROUS_MODE_ENABLED, pending, sessionVars>>

\* cmd_ls: the sort key calls is_dir() on every entry, the long format
\* stat(); both follow symlinks.
CmdLs(op, path) ==
    /\ Idle
    /\ LET c0 == [NoCall EXCEPT !.op = op]
           chk == CheckPathAllowed(fs, path)
       IN IF ~chk.ok THEN ShellDone(c0, "PermissionError", fs, CURRENT_DIR)
          ELSE IF Kind(fs, chk.resolved) # "dir" THEN ShellDone(c0, "", fs, CURRENT_DIR)
          ELSE ShellDone([c0 EXCEPT !.unchecked =
                             Uncovered({chk.resolved}, LinkTargets(fs, chk.resolved))],
                         "", fs, CURRENT_DIR)

\* cmd_ll: cmd_ls(["-l"] + args).
CmdLl(path) == CmdLs("ll", path)

\* cmd_cd: has_arg is FALSE for a bare "cd", which goes to the launch
\* directory.  The target is resolved and inspected (exists, is_dir) before
\* set_current_dir checks it.
CmdCd(has_arg, path) ==
    /\ Idle
    /\ ~has_arg => path = Rel(<<>>)
    /\ LET target == IF has_arg THEN Resolve(fs, CURRENT_DIR, path)
                     ELSE ResolveFrom(fs, <<>>, LAUNCH_DIR)
           set == SetCurrentDir(fs, Abs(target))
           c0 == [NoCall EXCEPT !.op = "cd", !.canon = target,
                                !.unchecked = IF Kind(fs, target) = "dir" /\ set.ok
                                              THEN {} ELSE {target}]
       IN IF Kind(fs, target) # "dir" THEN ShellDone(c0, "", fs, CURRENT_DIR)
          ELSE IF ~set.ok THEN ShellDone(c0, "", fs, CURRENT_DIR)
          ELSE ShellDone(c0, "", fs, set.resolved)

\* The per-file loop of cmd_cat, cmd_head and cmd_tail: the canonical paths
\* that passed the check (each is then inspected, and read if a file).
RECURSIVE ReadEach(_, _)
ReadEach(F, files) ==
    IF files = <<>> THEN {}
    ELSE LET chk == CheckPathAllowed(F, Head(files))
         IN (IF chk.ok THEN {chk.resolved} ELSE {}) \cup ReadEach(F, Tail(files))

CmdRead(op, files) ==
    /\ Idle
    /\ ShellDone([NoCall EXCEPT !.op = op,
                                !.unchecked = Uncovered(ReadEach(fs, files), ReadEach(fs, files))],
                 "", fs, CURRENT_DIR)

CmdCat(files) == CmdRead("cat", files)
CmdHead(files) == CmdRead("head", files)
CmdTail(files) == CmdRead("tail", files)

\* One turn of cmd_mkdir's loop; an exception is caught inside the loop.
MkdirOne(st, make_parents, path) ==
    LET F == st.F
        chk == CheckPathAllowed(F, path)
        r == chk.resolved
        st1 == st
    IN IF ~chk.ok THEN st
       ELSE IF Kind(F, r) # "none" THEN st1
       ELSE IF make_parents
            THEN (IF MkdirParentsOk(F, r) THEN [st1 EXCEPT !.F = MkdirParents(F, r)] ELSE st1)
            ELSE (IF Kind(F, Parent(r)) = "dir"
                  THEN [st1 EXCEPT !.F = F @@ (r :> DirNode)] ELSE st1)

RECURSIVE MkdirEach(_, _, _)
MkdirEach(st, make_parents, paths) ==
    IF paths = <<>> THEN st
    ELSE MkdirEach(MkdirOne(st, make_parents, Head(paths)), make_parents, Tail(paths))

CmdMkdir(make_parents, paths) ==
    /\ Idle
    /\ MayMutate
    /\ LET st == MkdirEach([F |-> fs], make_parents, paths)
       IN ShellDone([NoCall EXCEPT !.op = "mkdir"],
                    "", st.F, CURRENT_DIR)

\* _build_tree(path, tree, max_depth=3).
TreeMaxDepth == 3

\* The directories _build_tree lists, by their canonical paths: is_dir()
\* follows a symlink, and the recursion then lists what it points to.
RECURSIVE BuildTree(_, _, _)
BuildTree(F, d, current_depth) ==
    IF current_depth >= TreeMaxDepth THEN {}
    ELSE {d} \cup LinkTargets(F, d) \cup
         UNION {BuildTree(F, ResolveFrom(F, <<>>, q), current_depth + 1) :
                   q \in {r \in Children(F, d) : Kind(F, ResolveFrom(F, <<>>, r)) = "dir"}}

CmdTree(path) ==
    /\ Idle
    /\ LET c0 == [NoCall EXCEPT !.op = "tree"]
           chk == CheckPathAllowed(fs, path)
       IN IF ~chk.ok THEN ShellDone(c0, "", fs, CURRENT_DIR)
          ELSE IF Kind(fs, chk.resolved) # "dir" THEN ShellDone(c0, "", fs, CURRENT_DIR)
          ELSE ShellDone([c0 EXCEPT !.unchecked =
                             Uncovered({chk.resolved}, BuildTree(fs, chk.resolved, 0))],
                         "", fs, CURRENT_DIR)


\* The union of a set of functions with disjoint domains.
MergeAll(S) ==
    [q \in UNION {DOMAIN f : f \in S} |-> (CHOOSE f \in S : q \in DOMAIN f)[q]]

\* shutil.copytree(src, dst) with symlinks=False, and shutil.copy2 of one
\* file: the nodes created.  An entry that is a symlink is copied as what it
\* points to.  src is canonical.  The recursion is followed to one level
\* below MaxDepth, where InDepth discards the outcome.
RECURSIVE CopyNodes(_, _, _)
CopyNodes(F, src, dst) ==
    IF Kind(F, src) = "file" THEN (dst :> FileNode(F[src].content))
    ELSE IF Len(dst) > MaxDepth THEN (dst :> DirNode)
    ELSE (dst :> DirNode) @@
         MergeAll({CopyNodes(F, ResolveFrom(F, <<>>, q), Append(dst, Last(q))) :
                      q \in Children(F, src)})

\* The canonical paths copytree reads.
RECURSIVE CopyReads(_, _, _)
CopyReads(F, src, dst) ==
    IF Kind(F, src) = "file" \/ Len(dst) > MaxDepth THEN {src}
    ELSE {src} \cup UNION {CopyReads(F, ResolveFrom(F, <<>>, q), Append(dst, Last(q))) :
                              q \in Children(F, src)}

Overlay(F, G) == [q \in (DOMAIN F) \cup (DOMAIN G) |-> IF q \in DOMAIN G THEN G[q] ELSE F[q]]

\* cmd_cp.  Every exception is caught in the command.
CmdCp(source, dest) ==
    /\ Idle
    /\ MayMutate
    /\ LET c0 == [NoCall EXCEPT !.op = "cp"]
           s == CheckPathAllowed(fs, source)
           d == CheckPathAllowed(fs, dest)
           checked == {s.resolved, d.resolved}
           \* copy2 into a directory writes dest/name, through a symlink if it is one
           file_dst == IF Kind(fs, d.resolved) = "dir"
                       THEN ResolveFrom(fs, <<>>, Append(d.resolved, Last(s.resolved)))
                       ELSE d.resolved
       IN IF ~s.ok \/ ~d.ok THEN ShellDone(c0, "", fs, CURRENT_DIR)
          ELSE IF Kind(fs, s.resolved) = "none" THEN ShellDone(c0, "", fs, CURRENT_DIR)
          ELSE IF Kind(fs, s.resolved) = "dir"
               THEN IF Kind(fs, d.resolved) # "none" \/ ~MkdirParentsOk(fs, d.resolved)
                    THEN ShellDone(c0, "", fs, CURRENT_DIR)    \* FileExistsError
                    ELSE ShellDone(
                           [c0 EXCEPT !.unchecked =
                               Uncovered(checked, CopyReads(fs, s.resolved, d.resolved))],
                           "",
                           Overlay(MkdirParents(fs, Parent(d.resolved)),
                                   CopyNodes(fs, s.resolved, d.resolved)),
                           CURRENT_DIR)
          ELSE IF \/ s.resolved = <<>>
                  \/ file_dst = s.resolved                      \* SameFileError
                  \/ ~WriteTextOk(fs, file_dst)                 \* no parent, or a directory
               THEN ShellDone(c0, "", fs, CURRENT_DIR)
               ELSE ShellDone([c0 EXCEPT !.unchecked = Uncovered(checked, {file_dst})],
                              "", WriteText(fs, file_dst, fs[s.resolved].content),
                              CURRENT_DIR)

\* The tree at src moved to dst (os.rename, or copytree with symlinks=True
\* followed by rmtree): symlinks move as symlinks.
MoveTree(F, src, dst) ==
    LET moved == Descendants(F, src)
        stay == (DOMAIN F) \ (moved \cup Descendants(F, dst))
        new == {dst \o SubSeq(q, Len(src) + 1, Len(q)) : q \in moved}
    IN [q \in stay \cup new |->
          IF q \in new THEN F[src \o SubSeq(q, Len(dst) + 1, Len(q))] ELSE F[q]]

\* cmd_mv: shutil.move(source_abs, dest_abs).
CmdMv(source, dest) ==
    /\ Idle
    /\ MayMutate
    /\ LET c0 == [NoCall EXCEPT !.op = "mv"]
           s == CheckPathAllowed(fs, source)
           d == CheckPathAllowed(fs, dest)
           checked == {s.resolved, d.resolved}
           into == Kind(fs, d.resolved) = "dir"
           real_dst == IF into /\ s.resolved # <<>>
                       THEN Append(d.resolved, Last(s.resolved)) ELSE d.resolved
           src_dir == Kind(fs, s.resolved) = "dir"
           \* os.path.exists(real_dst) follows a symlink
           probe == IF into THEN Uncovered(checked, {ResolveFrom(fs, <<>>, real_dst)}) ELSE {}
           c2 == [c0 EXCEPT !.unchecked = probe]
       IN IF ~s.ok \/ ~d.ok THEN ShellDone(c0, "", fs, CURRENT_DIR)
          ELSE IF Kind(fs, s.resolved) = "none" THEN ShellDone(c0, "", fs, CURRENT_DIR)
          ELSE IF \/ s.resolved = <<>>
                  \/ (into /\ s.resolved = d.resolved)              \* the same directory
                  \/ (into /\ Kind(fs, real_dst) # "none")          \* "already exists"
                  \/ (src_dir /\ IsPrefix(s.resolved, real_dst))    \* into itself
                  \/ (src_dir /\ Kind(fs, real_dst) = "file")       \* a directory over a file
                  \/ (~src_dir /\ Kind(fs, Parent(real_dst)) # "dir") \* no parent
                  \/ (src_dir /\ ~MkdirParentsOk(fs, Parent(real_dst)))
               THEN ShellDone(c2, "", fs, CURRENT_DIR)
               ELSE ShellDone(c2, "",
                              MoveTree(MkdirParents(fs, Parent(real_dst)), s.resolved, real_dst),
                              CURRENT_DIR)

\* One turn of cmd_rm's loop: shutil.rmtree does not follow symlinks, and
\* Path.unlink removes one file.
RmOne(st, recursive, path) ==
    LET F == st.F
        chk == CheckPathAllowed(F, path)
        r == chk.resolved
        st1 == st
    IN IF ~chk.ok THEN st
       ELSE IF Kind(F, r) = "none" THEN st1
       ELSE IF Kind(F, r) = "dir"
            THEN (IF ~recursive THEN st1
                  ELSE [st1 EXCEPT !.F = Restrict(F, (DOMAIN F) \ (Descendants(F, r) \ {<<>>}))])
            ELSE [st1 EXCEPT !.F = Restrict(F, (DOMAIN F) \ {r})]

RECURSIVE RmEach(_, _, _)
RmEach(st, recursive, paths) ==
    IF paths = <<>> THEN st
    ELSE RmEach(RmOne(st, recursive, Head(paths)), recursive, Tail(paths))

CmdRm(recursive, paths) ==
    /\ Idle
    /\ MayMutate
    /\ LET st == RmEach([F |-> fs], recursive, paths)
       IN ShellDone([NoCall EXCEPT !.op = "rm"],
                    "", st.F, CURRENT_DIR)


(***************************************************************************)
(* session.py: strings.  A key is a sequence of characters.  A value's     *)
(* text is a sequence of runs [c, n], the character c repeated n times, so *)
(* that texts of tens of thousands of characters can be measured.          *)
(***************************************************************************)
\* The characters of the keys, in code point order: sorted() and the string
\* comparisons order two characters as their places in this sequence do.
Alphabet ==
    << ".", "0", "1", "2", "3", "4", "5", "6", "7", "8", "9",
       "A", "C", "E", "I", "K", "P", "R", "S", "T", "Y", "_",
       "a", "b", "c", "d", "e", "f", "g", "h", "i", "k", "l", "n", "o",
       "p", "r", "s", "t", "u", "w", "y" >>
Ord(ch) == CHOOSE i \in 1..Len(Alphabet) : Alphabet[i] = ch

\* str.lower() on the characters of the keys.
UpperCase == <<"A", "C", "E", "I", "K", "P", "R", "S", "T", "Y">>
LowerCase == <<"a", "c", "e", "i", "k", "p", "r", "s", "t", "y">>
LowerChar(ch) ==
    IF \E i \in 1..Len(UpperCase) : UpperCase[i] = ch
    THEN LowerCase[CHOOSE i \in 1..Len(UpperCase) : UpperCase[i] = ch]
    ELSE ch
Lower(k) == [i \in 1..Len(k) |-> LowerChar(k[i])]

\* str.startswith.
StartsWith(k, prefix) == Len(prefix) <= Len(k) /\ SubSeq(k, 1, Len(prefix)) = prefix

\* a < b for two strings: the first differing character decides, and a
\* proper prefix is smaller.
RECURSIVE KeyLess(_, _)
KeyLess(a, b) ==
    IF a = <<>> THEN b # <<>>
    ELSE IF b = <<>> THEN FALSE
    ELSE IF Head(a) = Head(b) THEN KeyLess(Tail(a), Tail(b))
    ELSE Ord(Head(a)) < Ord(Head(b))

\* sorted(S) for a set of keys.  SortedFrom(S, d) sorts keys that agree on
\* their first d characters: they agree on their first c >= d characters, the
\* key of length c, if any, comes first, then the keys grouped by character
\* c + 1, the groups in the order of Alphabet.  SortedGroups halves the
\* groups.
RECURSIVE SortedFrom(_, _)
RECURSIVE SortedGroups(_, _, _)
SortedFrom(S, d) ==
    IF S = {} THEN <<>>
    ELSE IF Cardinality(S) = 1 THEN <<CHOOSE k \in S : TRUE>>
    ELSE LET one == CHOOSE k \in S : TRUE
             Agree(c) == \A k \in S : Len(k) >= c /\ SubSeq(k, d + 1, c) = SubSeq(one, d + 1, c)
             c == CHOOSE n \in d..Len(one) : Agree(n) /\ (n = Len(one) \/ ~Agree(n + 1))
             ends == {k \in S : Len(k) = c}
             longer == S \ ends
             ranks == {r \in 1..Len(Alphabet) : \E k \in longer : k[c + 1] = Alphabet[r]}
         IN SortedFrom(ends, c) \o SortedGroups(longer, c, ranks)
SortedGroups(S, d, ranks) ==
    IF ranks = {} THEN <<>>
    ELSE IF Cardinality(ranks) = 1 THEN SortedFrom(S, d + 1)
    ELSE LET low == {r \in ranks : 2 * Cardinality({q \in ranks : q < r}) < Cardinality(ranks)}
             first == {k \in S : \E r \in low : k[d + 1] = Alphabet[r]}
         IN SortedGroups(first, d, low) \o SortedGroups(S \ first, d, ranks \ low)
Sorted(S) == SortedFrom(S, 0)

Run(ch, n) == [c |-> ch, n |-> n]
Whitespace == {" ", "\n", "\t"}

\* s + t, with the run that ends s and the run that starts t merged when
\* they are of the same character.
SCat(s, t) ==
    IF s = <<>> THEN t
    ELSE IF t = <<>> THEN s
    ELSE IF s[Len(s)].c = t[1].c
         THEN SubSeq(s, 1, Len(s) - 1) \o <<Run(t[1].c, s[Len(s)].n + t[1].n)>> \o Tail(t)
         ELSE s \o t

\* len(s).
RECURSIVE SumRuns(_, _, _)
SumRuns(s, lo, hi) ==
    IF lo > hi THEN 0
    ELSE IF lo = hi THEN s[lo].n
    ELSE LET mid == (lo + hi) \div 2
         IN SumRuns(s, lo, mid) + SumRuns(s, mid + 1, hi)
SLen(s) == SumRuns(s, 1, Len(s))

\* The same text with neighbouring runs of one character made one run.
Norm(s) ==
    LET starts == {i \in 1..Len(s) : i = 1 \/ s[i].c # s[i - 1].c}
        Start(k) == CHOOSE i \in starts : Cardinality({q \in starts : q < i}) = k - 1
        End(k) == IF k = Cardinality(starts) THEN Len(s) ELSE Start(k + 1) - 1
    IN [k \in 1..Cardinality(starts) |->
          [c |-> s[Start(k)].c, n |-> SumRuns(s, Start(k), End(k))]]

\* len(s.split()): the number of maximal stretches with no whitespace.
SWords(s) ==
    Cardinality({i \in 1..Len(s) :
        s[i].c \notin Whitespace /\ (i = 1 \/ s[i - 1].c \in Whitespace)})

\* ch in s.
SHas(s, ch) == \E i \in 1..Len(s) : s[i].c = ch

\* s[:k] and s[k:].
RECURSIVE STake(_, _)
STake(s, k) ==
    IF k <= 0 \/ s = <<>> THEN <<>>
    ELSE IF Head(s).n <= k THEN <<Head(s)>> \o STake(Tail(s), k - Head(s).n)
    ELSE <<Run(Head(s).c, k)>>
RECURSIVE SDrop(_, _)
SDrop(s, k) ==
    IF k <= 0 \/ s = <<>> THEN s
    ELSE IF Head(s).n <= k THEN SDrop(Tail(s), k - Head(s).n)
    ELSE <<Run(Head(s).c, Head(s).n - k)>> \o Tail(s)

\* s.replace(old, new) for single characters.
SReplaceChar(s, old, new) ==
    Norm([i \in 1..Len(s) |-> Run(IF s[i].c = old THEN new ELSE s[i].c, s[i].n)])

\* s.split("\n"): cur is the part being collected.
RECURSIVE SplitNl(_, _)
SplitNl(rest, cur) ==
    IF rest = <<>> THEN <<cur>>
    ELSE IF Head(rest).c = "\n"
         THEN <<cur>> \o [i \in 1..(Head(rest).n - 1) |-> <<>>] \o SplitNl(Tail(rest), <<>>)
         ELSE SplitNl(Tail(rest), Append(cur, Head(rest)))

\* sep.join(items).
RECURSIVE SJoin(_, _)
SJoin(sep, items) ==
    IF items = <<>> THEN <<>>
    ELSE IF Len(items) = 1 THEN items[1]
    ELSE SCat(SCat(items[1], sep), SJoin(sep, Tail(items)))

\* The text of a key.
KeyText(k) == [i \in 1..Len(k) |-> Run(k[i], 1)]

\* A value is a str or a list of str.
StrVal(s) == [kind |-> "str", items |-> <<s>>]
ListVal(items) == [kind |-> "list", items |-> items]

(***************************************************************************)
(* session.py: serialize_toon and estimate_toon_tokens.                    *)
(***************************************************************************)
LineWidth == 120

\* value_str.
ValueStr(v) == IF v.kind = "list" THEN SJoin(<<Run(",", 1)>>, v.items) ELSE v.items[1]

\* value_str[i : i + 120] for i in range(0, len(value_str), 120).
Chunks(s) ==
    [i \in 1..((SLen(s) + LineWidth - 1) \div LineWidth) |->
        STake(SDrop(s, (i - 1) * LineWidth), LineWidth)]

\* The lines serialize_toon writes for one entry.
EntryLines(key, v) ==
    LET value_str == ValueStr(v)
        parts == IF SLen(value_str) > LineWidth \/ SHas(value_str, "\n")
                 THEN IF ~SHas(value_str, "\n") /\ SLen(value_str) > LineWidth
                      THEN Chunks(value_str)
                      ELSE SplitNl(value_str, <<>>)
                 ELSE <<value_str>>
    IN [i \in 1..Len(parts) |->
          IF i = 1 THEN KeyText(key) \o <<Run(":", 1), Run(" ", 1)>> \o parts[1]
          ELSE <<Run(" ", 2)>> \o parts[i]]

\* The lines of all entries, keys sorted.
RECURSIVE LinesOf(_, _, _, _)
LinesOf(data, keys, lo, hi) ==
    IF lo > hi THEN <<>>
    ELSE IF lo = hi THEN EntryLines(keys[lo], data[keys[lo]])
    ELSE LET mid == (lo + hi) \div 2
         IN LinesOf(data, keys, lo, mid) \o LinesOf(data, keys, mid + 1, hi)
AllLines(data, keys) == LinesOf(data, keys, 1, Len(keys))

\* "\n".join(lines[lo..hi]) + "\n".
RECURSIVE CatLines(_, _, _)
CatLines(lines, lo, hi) ==
    IF lo > hi THEN <<>>
    ELSE IF lo = hi THEN lines[lo] \o <<Run("\n", 1)>>
    ELSE LET mid == (lo + hi) \div 2
         IN CatLines(lines, lo, mid) \o CatLines(lines, mid + 1, hi)

serialize_toon(data) ==
    LET lines == AllLines(data, Sorted(DOMAIN data))
    IN IF lines = <<>> THEN <<Run("\n", 1)>> ELSE CatLines(lines, 1, Len(lines))

estimate_toon_tokens(text) == SWords(text) + SLen(text) \div 4

(***************************************************************************)
(* session.py: compress_session.                                           *)
(***************************************************************************)
SoftTrigger == 12000
HardCeiling == 20000
ProtectedTurns == 6
SummaryWidth == 50
HistoryCap == 15

Key_goal == <<"g", "o", "a", "l">>
Key_decisions == <<"d", "e", "c", "i", "s", "i", "o", "n", "s">>
Key_cwd == <<"c", "w", "d">>
Key_files_hash == <<"f", "i", "l", "e", "s", "_", "h", "a", "s", "h">>
Key_open == <<"o", "p", "e", "n">>
Key_last_user == <<"l", "a", "s", "t", "_", "u", "s", "e", "r">>
Key_last_assistant ==
    <<"l", "a", "s", "t", "_", "a", "s", "s", "i", "s", "t", "a", "n", "t">>
Key_history == <<"h", "i", "s", "t", "o", "r", "y">>

preserve_keys == {Key_goal, Key_decisions, Key_cwd, Key_files_hash, Key_open}

\* The "files" prefix alone.
FilesPrefixOnly(key) == StartsWith(key, <<"f", "i", "l", "e", "s">>)

\* key.startswith("files") or key.startswith("diff")
IsPayloadKey(key) ==
    StartsWith(key, <<"f", "i", "l", "e", "s">>) \/ StartsWith(key, <<"d", "i", "f", "f">>)

\* "api" in key.lower() or "secret" in key.lower() or "key" in key.lower()
IsSecretKey(key) ==
    \/ Contains(Lower(key), <<"a", "p", "i">>)
    \/ Contains(Lower(key), <<"s", "e", "c", "r", "e", "t">>)
    \/ Contains(Lower(key), <<"k", "e", "y">>)

\* The "Preserve secrets" loop copies the entry.
SecretCopied(key, value) == value.kind = "str" /\ IsSecretKey(key)

\* k.startswith("turn_") and ("_user" in k or "_assistant" in k)
IsTurnKey(k) ==
    /\ StartsWith(k, <<"t", "u", "r", "n", "_">>)
    /\ \/ Contains(k, <<"_", "u", "s", "e", "r">>)
       \/ Contains(k, <<"_", "a", "s", "s", "i", "s", "t", "a", "n", "t">>)

turn_keys(data) == Sorted({k \in DOMAIN data : IsTurnKey(k)})

\* turn_keys[-6:] if len(turn_keys) >= 6 else turn_keys
last_exchanges(keys) ==
    IF Len(keys) >= ProtectedTurns
    THEN SubSeq(keys, Len(keys) - ProtectedTurns + 1, Len(keys))
    ELSE keys

InSeq(x, s) == \E i \in 1..Len(s) : s[i] = x

\* The summary with no truncation.
SummaryUncut(value) == SReplaceChar(value, "\n", " ")

\* value[:50] + "..." if len(value) > 50 else value, newlines then replaced.
Summary(value) ==
    SReplaceChar(IF SLen(value) > SummaryWidth
                 THEN SCat(STake(value, SummaryWidth), <<Run(".", 3)>>)
                 ELSE value,
                 "\n", " ")

\* timeline_steps: a summary for each str-valued turn outside last_exchanges.
RECURSIVE timeline_steps(_, _, _)
timeline_steps(data, keys, last) ==
    IF keys = <<>> THEN <<>>
    ELSE LET key == Head(keys)
             rest == timeline_steps(data, Tail(keys), last)
         IN IF ~InSeq(key, last) /\ data[key].kind = "str"
            THEN <<Summary(data[key].items[1])>> \o rest
            ELSE rest

\* timeline_steps[-15:]
LastSteps(steps) ==
    IF Len(steps) > HistoryCap THEN SubSeq(steps, Len(steps) - HistoryCap + 1, Len(steps))
    ELSE steps

\* The dict built from "Start compression" to "Check final size".
Compressed(data) ==
    LET keys == turn_keys(data)
        last == last_exchanges(keys)
        steps == timeline_steps(data, keys, last)
        copied == {k \in DOMAIN data :
                      \/ k \in preserve_keys
                      \/ IsPayloadKey(k)
                      \/ SecretCopied(k, data[k])
                      \/ InSeq(k, last)
                      \/ k \in {Key_last_user, Key_last_assistant}}
    IN [k \in copied \cup (IF steps # <<>> THEN {Key_history} ELSE {}) |->
          IF k = Key_history /\ steps # <<>> THEN ListVal(LastSteps(steps)) ELSE data[k]]

\* compress_session with no soft trigger.
NoSoftTrigger(mode, tokens) == FALSE

\* mode == "smart" and tokens < 12000
UnderSoftTrigger(mode, tokens) == mode = "smart" /\ tokens < SoftTrigger

\* compress_session with no check of the final size.
NoCeiling(final_tokens) == FALSE

\* final_tokens > 20000
OverCeiling(final_tokens) == final_tokens > HardCeiling

\* compress_session(data, mode): what it returns or that it raised, and
\* whether it went past "Start compression".
compress_session(data, mode) ==
    LET tokens == estimate_toon_tokens(serialize_toon(data))
        compressed == Compressed(data)
        final_tokens == estimate_toon_tokens(serialize_toon(compressed))
    IN IF mode = "never" THEN [status |-> "returned", data |-> data, forced |-> FALSE]
       ELSE IF UnderSoftTrigger(mode, tokens)
            THEN [status |-> "returned", data |-> data, forced |-> FALSE]
       ELSE IF OverCeiling(final_tokens)
            THEN [status |-> "raised", data |-> <<>>, forced |-> TRUE]
            ELSE [status |-> "returned", data |-> compressed, forced |-> TRUE]

(***************************************************************************)
(* session.py: messages_to_toon's keys, and the inputs of compress_session.*)
(***************************************************************************)
MaxTurns == 8       \* turn entries in a session
LongSession == 22   \* turn entries in the one longer session

DigitChars == <<"0", "1", "2", "3", "4", "5", "6", "7", "8", "9">>

RECURSIVE Decimal(_)
Decimal(i) ==
    IF i < 10 THEN <<DigitChars[i + 1]>>
    ELSE Decimal(i \div 10) \o <<DigitChars[(i % 10) + 1]>>

\* f"{i:03d}"
Format03d(i) == [j \in 1..(3 - Len(Decimal(i))) |-> "0"] \o Decimal(i)

RoleText(role) ==
    IF role = "user" THEN <<"u", "s", "e", "r">>
    ELSE <<"a", "s", "s", "i", "s", "t", "a", "n", "t">>

\* f"turn_{i:03d}_{role}"
TurnKey(i, role) == <<"t", "u", "r", "n", "_">> \o Format03d(i) \o <<"_">> \o RoleText(role)

\* The role of message i of a conversation the user starts.
RoleAt(i) == IF i % 2 = 0 THEN "user" ELSE "assistant"

\* Texts: "x x", 130 characters on one line, 60 characters and a second
\* line, 50000 characters on one line, 90000 characters and a second line.
TextShort == <<Run("x", 1), Run(" ", 1), Run("x", 1)>>
TextWide == <<Run("x", 130)>>
TextLong == <<Run("x", 60), Run("\n", 1), Run("x", 2)>>
TextBig == <<Run("x", 50000)>>
TextHuge == <<Run("x", 90000), Run("\n", 1), Run("x", 1)>>
TextLines == <<Run("x", 2), Run("\n", 1), Run("x", 3)>>

ListShort == ListVal(<<<<Run("x", 1)>>, <<Run("y", 1)>>>>)

\* The first message number of the sessions: sessions that start at message
\* 0, and sessions around message 1000.
FirstTurns == {0, 996}

\* What the turn entries hold: j counts from the oldest entry.
TurnPatterns == {"short", "long", "list", "huge"}
TurnContent(pattern, j) ==
    CASE pattern = "short" -> StrVal(TextShort)
      [] pattern = "long" -> IF j % 2 = 0 THEN StrVal(TextLong) ELSE StrVal(TextLines)
      [] pattern = "list" -> ListShort
      [] pattern = "huge" -> IF j = 0 THEN StrVal(TextHuge) ELSE StrVal(TextShort)

\* The turn entries of messages first .. first + n - 1.
TurnEntries(first, n, pattern) ==
    [k \in {TurnKey(first + j, RoleAt(first + j)) : j \in 0..(n - 1)} |->
        TurnContent(pattern,
                    (CHOOSE j \in 0..(n - 1) : TurnKey(first + j, RoleAt(first + j)) = k))]

\* The other entries of a session: one group of keys, all with one value,
\* and possibly a key of no group ("note") with a large value.
Key_note == <<"n", "o", "t", "e">>
KeyGroups ==
    { {},
      preserve_keys,
      { <<"f", "i", "l", "e", "s", ".", "n", "e", "w">>, <<"d", "i", "f", "f", ".", "a">> },
      { <<"a", "p", "i", "_", "t", "o", "k", "e", "n">>, <<"S", "E", "C", "R", "E", "T">>,
        <<"h", "o", "t", "k", "e", "y">> },
      { Key_last_user, Key_last_assistant, Key_history } }
GroupValues == {StrVal(TextShort), ListShort, StrVal(TextWide), StrVal(TextBig), StrVal(TextHuge)}

SessionInputs ==
    { TurnEntries(first, n, pattern) @@ [k \in G |-> v] @@
      (IF filler THEN (Key_note :> StrVal(TextBig)) ELSE <<>>) :
        first \in FirstTurns, n \in (0..MaxTurns) \cup {LongSession},
        pattern \in TurnPatterns,
        G \in KeyGroups, v \in GroupValues, filler \in BOOLEAN }

Modes == {"always", "smart", "never"}

\* A call of compress_session(cdata, mode).
CompressSession(mode) ==
    /\ cout.status = "none"
    /\ cmode' = mode
    /\ cout' = compress_session(cdata, mode)
    /\ UNCHANGED <<fsVars, serviceVars, cdata, agentVars>>

(***************************************************************************)
(* session.py: parse_toon.                                                 *)
(***************************************************************************)
\* s.split(ch): cur is the part being collected.
RECURSIVE SplitChar(_, _, _)
SplitChar(rest, cur, ch) ==
    IF rest = <<>> THEN <<cur>>
    ELSE IF Head(rest).c = ch
         THEN <<cur>> \o [i \in 1..(Head(rest).n - 1) |-> <<>>]
                      \o SplitChar(Tail(rest), <<>>, ch)
         ELSE SplitChar(Tail(rest), Append(cur, Head(rest)), ch)

\* s.lstrip(), s.rstrip() and s.strip().
RECURSIVE SLStrip(_)
SLStrip(s) ==
    IF s = <<>> THEN <<>>
    ELSE IF Head(s).c \in Whitespace THEN SLStrip(Tail(s)) ELSE s
RECURSIVE SRStrip(_)
SRStrip(s) ==
    IF s = <<>> THEN <<>>
    ELSE IF s[Len(s)].c \in Whitespace THEN SRStrip(SubSeq(s, 1, Len(s) - 1)) ELSE s
SStrip(s) == SLStrip(SRStrip(s))

\* s.split(ch, 1) when ch is in s: what is before the first ch, and after it.
SplitFirst(s, ch) ==
    LET i == CHOOSE j \in 1..Len(s) : s[j].c = ch /\ \A h \in 1..(j - 1) : s[h].c # ch
    IN [before |-> SubSeq(s, 1, i - 1),
        after |-> (IF s[i].n > 1 THEN <<Run(ch, s[i].n - 1)>> ELSE <<>>)
                  \o SubSeq(s, i + 1, Len(s))]

\* The characters of a text, one by one.
Expand(s) ==
    [i \in 1..SLen(s) |->
        s[CHOOSE j \in 1..Len(s) : SumRuns(s, 1, j - 1) < i /\ i <= SumRuns(s, 1, j)].c]

\* lines: the lines of the text that are not blank and are no comment, each
\* with its trailing whitespace removed.
\* text.splitlines() for the runs lo..hi of the text, halved: the part that
\* ends the left half and the part that starts the right half are one line.
RECURSIVE SplitLines(_, _, _)
SplitLines(text, lo, hi) ==
    IF lo > hi THEN <<<<>>>>
    ELSE IF lo = hi
         THEN IF text[lo].c = "\n" THEN [i \in 1..(text[lo].n + 1) |-> <<>>]
              ELSE <<<<text[lo]>>>>
    ELSE LET mid == (lo + hi) \div 2
             L == SplitLines(text, lo, mid)
             R == SplitLines(text, mid + 1, hi)
         IN SubSeq(L, 1, Len(L) - 1) \o <<L[Len(L)] \o R[1]>> \o Tail(R)

ToonLines(text) ==
    LET all == SplitLines(text, 1, Len(text))
        kept == SelectSeq(all, LAMBDA ln : SStrip(ln) # <<>> /\ SStrip(ln)[1].c # "#")
    IN [i \in 1..Len(kept) |-> SRStrip(Norm(kept[i]))]

\* lines[i].startswith("  ") or lines[i].startswith("\t")
IsContinuation(ln) ==
    ln # <<>> /\ ((ln[1].c = " " /\ ln[1].n >= 2) \/ ln[1].c = "\t")

\* lines[i][2:] if lines[i].startswith("  ") else lines[i][1:]
Continuation(ln) == IF ln[1].c = " " /\ ln[1].n >= 2 THEN SDrop(ln, 2) ELSE SDrop(ln, 1)

\* Where the inner while loop stops: the first line from i on that is no
\* continuation line.
RECURSIVE AfterContinuations(_, _)
AfterContinuations(lines, i) ==
    IF i <= Len(lines) /\ IsContinuation(lines[i]) THEN AfterContinuations(lines, i + 1)
    ELSE i

\* "Detect list": a value with a comma and no newline is a list of its
\* stripped, non-empty parts.
ParseValue(value) ==
    IF SHas(value, ",") /\ ~SHas(value, "\n")
    THEN LET parts == SplitChar(value, <<>>, ",")
             kept == SelectSeq(parts, LAMBDA v : SStrip(v) # <<>>)
         IN ListVal([i \in 1..Len(kept) |-> SStrip(kept[i])])
    ELSE StrVal(value)

\* One pass through the body of the while loop of parse_toon: st.i is the
\* line index i (from 1), st.data is data.
ParseStep(lines, st) ==
    IF ~SHas(lines[st.i], ":") THEN [i |-> st.i + 1, data |-> st.data]
    ELSE LET sp == SplitFirst(lines[st.i], ":")
             key == Expand(SStrip(sp.before))
             j == AfterContinuations(lines, st.i + 1)
             value == SJoin(<<Run("\n", 1)>>,
                            <<SStrip(sp.after)>> \o
                            [h \in 1..(j - st.i - 1) |-> Continuation(lines[st.i + h])])
         IN [i |-> j, data |-> (key :> ParseValue(value)) @@ st.data]

\* The while loop, run until i is past line stop or past the last line,
\* width lines at a time, and these a tenth of width at a time.
RECURSIVE ParseUntil(_, _, _, _)
ParseUntil(lines, st, stop, width) ==
    IF st.i > Len(lines) \/ st.i > stop THEN st
    ELSE IF width = 1 THEN ParseUntil(lines, ParseStep(lines, st), stop, 1)
    ELSE LET last == IF st.i + width - 1 < stop THEN st.i + width - 1 ELSE stop
         IN ParseUntil(lines, ParseUntil(lines, st, last, width \div 10), stop, width)

\* The while loop, run to its end.
ParseLines(lines, st) == ParseUntil(lines, st, Len(lines), 1000).data

parse_toon(text) == ParseLines(ToonLines(text), [i |-> 1, data |-> <<>>])

\* The mappings given to serialize_toon and read back: up to two entries,
\* with scalars (short, with a comma, wider than a line, of several lines,
\* with an indented second line) and lists (of 1, 2 and 3 elements).
TextComma == <<Run("x", 1), Run(",", 1), Run("y", 1)>>
TextIndented == <<Run("x", 2), Run("\n", 1), Run(" ", 4), Run("y", 1)>>
ToonValues ==
    { StrVal(TextShort), StrVal(TextComma), StrVal(TextWide), StrVal(TextLines),
      StrVal(TextIndented),
      ListVal(<<<<Run("x", 1)>>>>), ListShort,
      ListVal(<<<<Run("y", 1)>>, <<Run("x", 1), Run(" ", 1), Run("x", 1)>>, <<Run("x", 1)>>>>) }
ToonInputs ==
    { [k \in G |-> IF k = Key_goal THEN v ELSE w] :
        G \in SUBSET {Key_goal, Key_decisions}, v \in ToonValues, w \in ToonValues }

\* parse_toon(serialize_toon(cdata)).
ToonRoundTrip ==
    /\ cout.status = "none"
    /\ cout' = [status |-> "decoded", data |-> parse_toon(serialize_toon(cdata)),
                forced |-> FALSE]
    /\ UNCHANGED <<fsVars, serviceVars, cdata, cmode, agentVars>>

(***************************************************************************)
(* session.py: messages_to_toon and toon_to_messages.                      *)
(***************************************************************************)
\* A message of a conversation.
Msg(role, content) == [role |-> role, content |-> content]

\* data after the loop of messages_to_toon over messages lo..hi; message i
\* of the list has index i - 1 in enumerate.
RECURSIVE TurnData(_, _, _)
TurnData(msgs, lo, hi) ==
    IF lo > hi THEN <<>>
    ELSE IF lo = hi
         THEN TurnKey(lo - 1, msgs[lo].role) :> StrVal(msgs[lo].content)
    ELSE LET mid == (lo + hi) \div 2
         IN TurnData(msgs, mid + 1, hi) @@ TurnData(msgs, lo, mid)

messages_to_toon(msgs) == serialize_toon(TurnData(msgs, 1, Len(msgs)))

\* key.split("_", 2): the number of parts, and parts[2].
Underscores(key) == {i \in 1..Len(key) : key[i] = "_"}
SecondUnderscore(key) ==
    CHOOSE i \in Underscores(key) : Cardinality({j \in Underscores(key) : j < i}) = 1
KeyRole(key) == SubSeq(key, SecondUnderscore(key) + 1, Len(key))

\* ", ".join(content) for a list, str(content) otherwise.
ContentText(v) ==
    IF v.kind = "list" THEN SJoin(<<Run(",", 1), Run(" ", 1)>>, v.items) ELSE v.items[1]

toon_to_messages(toon_text) ==
    LET data == parse_toon(toon_text)
        keys == Sorted({k \in DOMAIN data : StartsWith(k, <<"t", "u", "r", "n", "_">>)})
        kept == SelectSeq(keys, LAMBDA k : Cardinality(Underscores(k)) >= 2)
    IN [i \in 1..Len(kept) |-> Msg(KeyRole(kept[i]), ContentText(data[kept[i]]))]

\* Conversations: n messages with alternating roles, the user or the
\* assistant first, every content of one pattern.
MaxTalk == 8
LongTalk == 1001
TalkContents == {TextShort, TextComma, TextWide, TextIndented}
Other(role) == IF role = "user" THEN "assistant" ELSE "user"
Talk(n, first, content) ==
    [i \in 1..n |-> Msg(IF i % 2 = 1 THEN first ELSE Other(first), content)]
Talks ==
    { Talk(n, first, content) :
        n \in 0..MaxTalk, first \in {"user", "assistant"}, content \in TalkContents }
    \cup { Talk(LongTalk, "user", <<Run("x", 1)>>) }

\* toon_to_messages(messages_to_toon(cdata)): a session saved and resumed.
SaveAndResume ==
    /\ cout.status = "none"
    /\ cout' = [status |-> "resumed", data |-> toon_to_messages(messages_to_toon(cdata)),
                forced |-> FALSE]
    /\ UNCHANGED <<fsVars, serviceVars, cdata, cmode, agentVars>>

(***************************************************************************)
(* agent.py: Agent.chat.  The model call and execute_tool are the steps    *)
(* chat waits in; what they give back is drawn from small sets.            *)
(***************************************************************************)
MaxChats == 2
max_iterations == 10

SystemTurn == [role |-> "system", content |-> "SYSTEM_PROMPT"]

\* What json.loads makes of the arguments text of a tool call: an object with
\* the keys named (and its "path"), a JSONDecodeError, or a value that is no
\* object.
ArgsPath(path) == [json |-> "object", keys |-> {"path"}, path |-> path]
ArgsWrite(path) == [json |-> "object", keys |-> {"path", "content"}, path |-> path]
ArgsMalformed == [json |-> "malformed", keys |-> {}, path |-> Rel(<<>>)]
ArgsArray == [json |-> "array", keys |-> {}, path |-> Rel(<<>>)]

\* The tool calls a response may carry, and the responses.
Call1 == [id |-> "call_1", name |-> "read_file", arguments |-> ArgsPath(Rel(<<"f">>))]
Call2 == [id |-> "call_2", name |-> "no_such_tool", arguments |-> ArgsPath(Rel(<<"f">>))]
ToolCallLists == {<<Call1>>, <<Call2, Call1>>}
FinalContents == {TextShort, <<>>}

\* Tool calls that go wrong: arguments that are no JSON, a path outside the
\* sandbox, a file that is not there, a write the user declines, and
\* arguments that are JSON but no object.
CallMalformed == [id |-> "call_3", name |-> "read_file", arguments |-> ArgsMalformed]
CallOutside ==
    [id |-> "call_4", name |-> "read_file", arguments |-> ArgsPath(Rel(<<"..", "etc", "f">>))]
CallMissing ==
    [id |-> "call_5", name |-> "read_file", arguments |-> ArgsPath(Rel(<<"new", "g">>))]
CallDeclined == [id |-> "call_6", name |-> "write_file", arguments |-> ArgsWrite(Rel(<<"f">>))]
CallListMalformed == [id |-> "call_7", name |-> "list_files", arguments |-> ArgsMalformed]
CallArray == [id |-> "call_8", name |-> "read_file", arguments |-> ArgsArray]
ErrorCallLists ==
    {<<CallMalformed, CallOutside, CallMissing, CallDeclined, Call2, Call1>>,
     <<CallListMalformed>>,
     <<Call1, CallArray>>}

ToolNames == {"read_file", "write_file", "edit_file", "list_files"}

\* "Create task entries for all tool calls": args.get raises AttributeError,
\* which the except clause (json.JSONDecodeError) does not catch, when the
\* arguments of a call of one of the four tools are JSON but no object.
DescribeRaises(calls) ==
    \E i \in 1..Len(calls) :
        /\ calls[i].name \in ToolNames
        /\ calls[i].arguments.json \notin {"object", "malformed"}

\* arguments = json.loads(...), or {} on json.JSONDecodeError.
Arguments(tool_call) ==
    IF tool_call.arguments.json = "malformed"
    THEN [json |-> "object", keys |-> {}, path |-> Rel(<<>>)]
    ELSE tool_call.arguments

\* What execute_tool returns for a tool call of the call lists: the user of
\* these conversations answers n at the prompt of write_file.
ExecuteToolResult(tool_call) ==
    LET arguments == Arguments(tool_call)
        name == tool_call.name
        chk == CheckPathAllowed(fs, arguments.path)
    IN IF name = "read_file"
       THEN IF arguments.json # "object" THEN Failure("TypeError")
            ELSE IF "path" \notin arguments.keys THEN Failure("KeyError")
            ELSE IF ~chk.ok THEN Failure("PermissionError")
            ELSE IF Kind(fs, chk.resolved) = "none" THEN Failure("File not found")
            ELSE IF Kind(fs, chk.resolved) # "file" THEN Failure("Not a file")
            ELSE Success("content")
       ELSE IF name = "write_file"
       THEN IF arguments.json # "object" THEN Failure("TypeError")
            ELSE IF {"path", "content"} \ arguments.keys # {} THEN Failure("KeyError")
            ELSE IF ~chk.ok THEN Failure("PermissionError")
            ELSE IF Kind(fs, chk.resolved) = "dir" THEN Failure("IsADirectoryError")
            ELSE Failure("User cancelled")
       ELSE IF name = "list_files"
       THEN IF arguments.json # "object" THEN Failure("AttributeError")
            ELSE IF ~chk.ok THEN Failure("PermissionError")
            ELSE IF Kind(fs, chk.resolved) = "none" THEN Failure("Directory not found")
            ELSE IF Kind(fs, chk.resolved) # "dir" THEN Failure("Not a directory")
            ELSE Success("listing")
       ELSE Failure("Unknown tool")

\* The tool turn's text without the "Error: " of a failure.
ToolResultPlain(result) == <<result.msg>>

\* tool_result: result["result"], or f"Error: {result['error']}".
ToolResultText(result) ==
    IF result.success THEN <<result.msg>> ELSE <<"Error: ", result.msg>>

\* The assistant turn that carries the tool calls of a response.
AssistantToolTurn(calls) ==
    [role |-> "assistant", content |-> "None",
     tool_calls |-> [i \in 1..Len(calls) |->
                       [id |-> calls[i].id, name |-> calls[i].name,
                        arguments |-> calls[i].arguments]]]

\* A tool turn answering another call than the one that ran.
ToolTurnOfFirst(tool_call, result) ==
    [role |-> "tool", tool_call_id |-> tool_calls[1].id, content |-> ToolResultText(result)]

\* The tool turn appended after a tool call ran.
ToolTurn(tool_call, result) ==
    [role |-> "tool", tool_call_id |-> tool_call.id, content |-> ToolResultText(result)]

\* A loop that never stops.
AlwaysIterate(i) == TRUE

\* while iteration < max_iterations
MayIterate(i) == i < max_iterations

\* What chat returned: the final content, or the fixed sentence.
NoReturn == [said |-> "", content |-> <<>>]
Returned(final_content) == [said |-> "final_content", content |-> final_content]
TooManySteps ==
    [said |-> "I encountered too many steps. Please try a simpler request.",
     content |-> <<>>]

AgentInit ==
    /\ self_messages = <<>>
    /\ last_response = <<>>
    /\ total_tokens = 0
    /\ context_file = <<>>
    /\ messages = <<>>
    /\ iteration = 0
    /\ tool_calls = <<>>
    /\ tc = 0
    /\ apc = "idle"
    /\ chat_return = NoReturn
    /\ nchats = 0
    /\ log = <<>>

\* chat is left: its locals are gone.
ChatLeft(how, value) ==
    /\ apc' = how
    /\ chat_return' = value
    /\ messages' = <<>>
    /\ tool_calls' = <<>>
    /\ tc' = 0

\* Agent.chat(user_message) up to its first model call; max_iterations is
\* positive, so the loop is entered.
Chat(user_message) ==
    /\ apc \in {"idle", "done", "raised"}
    /\ nchats < MaxChats
    /\ nchats' = nchats + 1
    /\ self_messages' = Append(self_messages, Msg("user", user_message))
    /\ messages' = <<SystemTurn>> \o self_messages'
    /\ iteration' = 1
    /\ apc' = "awaiting"
    /\ chat_return' = NoReturn
    /\ log' = <<<<"create">>>>
    /\ UNCHANGED <<fsVars, serviceVars, compressVars, last_response, total_tokens, context_file,
                   tool_calls, tc>>

\* The tool-checking model call returns a response with tool calls: the
\* assistant turn is appended and the task entries are created.
ModelRequestsTools(calls) ==
    /\ apc = "awaiting"
    /\ IF DescribeRaises(calls)
       THEN ChatLeft("raised", NoReturn)
       ELSE /\ messages' = Append(messages, AssistantToolTurn(calls))
            /\ tool_calls' = calls
            /\ tc' = 1
            /\ apc' = "executing"
            /\ UNCHANGED chat_return
    /\ UNCHANGED <<fsVars, serviceVars, compressVars, self_messages, last_response, total_tokens,
                   context_file, iteration, nchats, log>>

\* The tool-checking model call returns a response with no tool calls:
\* _stream_response makes the streaming model call.
ModelAnswers ==
    /\ apc = "awaiting"
    /\ apc' = "streaming"
    /\ log' = Append(log, <<"stream">>)
    /\ UNCHANGED <<fsVars, serviceVars, compressVars, self_messages, last_response, total_tokens,
                   context_file, messages, iteration, tool_calls, tc, chat_return, nchats>>

\* A model call raises: the tool-checking call and the fallback call let the
\* exception leave chat; the streaming call falls back to a plain call.
ModelRaises ==
    /\ apc \in {"awaiting", "streaming", "fallback"}
    /\ IF apc = "streaming"
       THEN /\ apc' = "fallback"
            /\ log' = Append(log, <<"stream">>)
            /\ UNCHANGED <<messages, tool_calls, tc, chat_return>>
       ELSE /\ ChatLeft("raised", NoReturn)
            /\ UNCHANGED log
    /\ UNCHANGED <<fsVars, serviceVars, compressVars, self_messages, last_response, total_tokens,
                   context_file, iteration, nchats>>

\* The final response arrived: chat from "Add to conversation history" to
\* its return, save_context included.
FinalResponse(final_content) ==
    /\ apc \in {"streaming", "fallback"}
    /\ self_messages' = Append(self_messages, Msg("assistant", final_content))
    /\ last_response' = final_content
    /\ total_tokens' = total_tokens + SLen(final_content) \div 4
                          + SLen(self_messages[Len(self_messages)].content) \div 4
    /\ context_file' = messages_to_toon(self_messages')
    /\ ChatLeft("done", Returned(final_content))
    /\ UNCHANGED <<fsVars, serviceVars, compressVars, iteration, nchats, log>>

\* One pass of "Execute each tool call": execute_tool returns, the tool turn
\* is appended; after the last tool call the loop goes on to its next model
\* call, or chat returns when the iterations are used up.
ExecuteTool ==
    /\ apc = "executing"
    /\ LET tool_call == tool_calls[tc]
           result == ExecuteToolResult(tool_call)
           ran == Append(log, <<"exec", tool_call.id>>)
       IN IF tc < Len(tool_calls)
          THEN /\ messages' = Append(messages, ToolTurn(tool_call, result))
               /\ tc' = tc + 1
               /\ log' = ran
               /\ UNCHANGED <<iteration, tool_calls, apc, chat_return>>
          ELSE IF MayIterate(iteration)
          THEN /\ messages' = Append(messages, ToolTurn(tool_call, result))
               /\ iteration' = iteration + 1
               /\ apc' = "awaiting"
               /\ log' = Append(ran, <<"create">>)
               /\ UNCHANGED <<tool_calls, tc, chat_return>>
          ELSE /\ ChatLeft("done", TooManySteps)
               /\ log' = ran
               /\ UNCHANGED iteration
    /\ UNCHANGED <<fsVars, serviceVars, compressVars, self_messages, last_response, total_tokens,
                   context_file, nchats>>

\* Ctrl-C while a tool call waits at its prompt: KeyboardInterrupt is no
\* Exception, it leaves execute_tool and chat.
ToolInterrupted ==
    /\ apc = "executing"
    /\ ChatLeft("raised", NoReturn)
    /\ UNCHANGED <<fsVars, serviceVars, compressVars, self_messages, last_response, total_tokens,
                   context_file, iteration, nchats, log>>

\* The steps of a chat call under way.
ChatStep ==
    \/ \E calls \in ToolCallLists : ModelRequestsTools(calls)
    \/ ModelAnswers
    \/ ModelRaises
    \/ \E final_content \in FinalContents : FinalResponse(final_content)
    \/ ExecuteTool
    \/ ToolInterrupted

(***************************************************************************)
(* cache.py.  The clock counts days.  A cache file is [key, st_mtime,      *)
(* st_size, text]; the directory lists its files oldest modification       *)
(* first.  The text of a file is what json.loads makes of it.              *)
(***************************************************************************)
MaxClock == 32
retention_days == 30
max_size == 500 * 1024 * 1024

\* The request triples; temperature in tenths.
Triple(m, model, temperature) == [messages |-> m, model |-> model, temperature |-> temperature]
TripleHello == Triple(<<"hello">>, "grok-4", 7)
TripleGoodbye == Triple(<<"goodbye">>, "grok-4", 7)
TripleOtherModel == Triple(<<"hello">>, "grok-3", 7)
TripleCold == Triple(<<"hello">>, "grok-4", 0)
StoredTriples == {TripleHello, TripleGoodbye}
Triples == StoredTriples \cup {TripleOtherModel, TripleCold}

\* The responses; the cache file of a long answer takes 300 MB.
NoValue == [content |-> "", usage |-> [total_tokens |-> 0]]
ShortAnswer == [content |-> "test answer", usage |-> [total_tokens |-> 100]]
LongAnswer == [content |-> "long answer", usage |-> [total_tokens |-> 9000]]
Responses == {ShortAnswer, LongAnswer}

\* A key that leaves the temperature out.
KeyWithoutTemperature(triple) == <<"sha256", "messages", triple.messages, "model", triple.model>>

\* _compute_cache_key: the hash of json.dumps(key_data, sort_keys=True);
\* different texts have different hashes.
compute_cache_key(triple) ==
    <<"sha256", "messages", triple.messages, "model", triple.model,
      "temperature", triple.temperature>>

\* datetime.isoformat, and whether datetime.fromisoformat takes the text.
IsoFormat(day) == <<"iso", day>>
IsIso(t) == t[1] = "iso"
FromIsoFormat(t) == t[2]

\* json.dumps and json.loads of a response.
DumpsResponse(response) == <<"dict", response.content, response.usage.total_tokens>>
LoadsResponse(t) == [content |-> t[2], usage |-> [total_tokens |-> t[3]]]

\* cache_data as json.loads reads it back.
CacheText(now, triple, response) ==
    [json |-> "object", cached_at |-> IsoFormat(now), messages |-> triple.messages,
     model |-> triple.model, temperature |-> triple.temperature,
     response |-> DumpsResponse(response)]

\* Texts no cache_response wrote: no JSON, JSON that is no object, a file
\* that cannot be read, no cached_at, a cached_at that is no date, and a
\* response that is a list or is missing.
CorruptTexts ==
    { [CacheText(0, TripleHello, ShortAnswer) EXCEPT !.json = "invalid"],
      [CacheText(0, TripleHello, ShortAnswer) EXCEPT !.json = "array"],
      [CacheText(0, TripleHello, ShortAnswer) EXCEPT !.json = "unreadable"],
      [CacheText(0, TripleHello, ShortAnswer) EXCEPT !.cached_at = <<"", 0>>],
      [CacheText(0, TripleHello, ShortAnswer) EXCEPT !.cached_at = <<"yesterday", 0>>],
      [CacheText(0, TripleHello, ShortAnswer) EXCEPT !.response = <<"list", "", 0>>],
      [CacheText(0, TripleHello, ShortAnswer) EXCEPT !.response = <<"null", "", 0>>] }

FileSize(text) == IF text.response[2] = "long answer" THEN 300 * 1024 * 1024 ELSE 1024

CacheFile(key, now, text) ==
    [key |-> key, st_mtime |-> now, st_size |-> FileSize(text), text |-> text]

\* The cache directory the process finds: empty, or with one damaged file.
InitialCaches ==
    {<<>>} \cup {<<CacheFile(compute_cache_key(TripleHello), 0, text)>> : text \in CorruptTexts}

HasFile(dir, key) == \E i \in 1..Len(dir) : dir[i].key = key
FileOf(dir, key) == dir[CHOOSE i \in 1..Len(dir) : dir[i].key = key]

\* cache_file.unlink()
Unlink(dir, key) == SelectSeq(dir, LAMBDA f : f.key # key)

\* cache_file.write_text(...): the file is the newest of the directory.
WriteCacheFile(dir, key, now, text) == Append(Unlink(dir, key), CacheFile(key, now, text))

RECURSIVE TotalSize(_)
TotalSize(dir) == IF dir = <<>> THEN 0 ELSE Head(dir).st_size + TotalSize(Tail(dir))

\* "Delete oldest files until under size limit"
RECURSIVE EvictOldest(_, _)
EvictOldest(cache_files, total_size) ==
    IF total_size > max_size /\ cache_files # <<>>
    THEN EvictOldest(Tail(cache_files), total_size - Head(cache_files).st_size)
    ELSE cache_files

\* _prune_cache_if_needed: "Delete files older than 30 days", then the
\* eviction.
prune_cache_if_needed(dir, now) ==
    LET cutoff_time == now - retention_days
        kept == SelectSeq(dir, LAMBDA f : ~(f.st_mtime < cutoff_time))
    IN EvictOldest(kept, TotalSize(kept))

\* An entry that is never too old.
NeverExpired(now, cached_time) == FALSE

\* datetime.now() - cached_time > timedelta(days=30)
Expired(now, cached_time) == now - cached_time > retention_days

Miss == [hit |-> FALSE, value |-> NoValue]
Hit(response) == [hit |-> TRUE, value |-> response]

\* get_cached_response: what it returns and the directory it leaves.
get_cached_response(dir, now, triple) ==
    LET cache_key == compute_cache_key(triple)
        cached_data == FileOf(dir, cache_key).text
    IN IF ~HasFile(dir, cache_key) THEN [ret |-> Miss, dir |-> dir]
       ELSE IF cached_data.json # "object" \/ ~IsIso(cached_data.cached_at)
            THEN [ret |-> Miss, dir |-> Unlink(dir, cache_key)]
       ELSE IF Expired(now, FromIsoFormat(cached_data.cached_at))
            THEN [ret |-> Miss, dir |-> Unlink(dir, cache_key)]
       ELSE IF cached_data.response[1] = "dict"
            THEN [ret |-> Hit(LoadsResponse(cached_data.response)), dir |-> dir]
       ELSE [ret |-> Miss, dir |-> dir]

NoCacheCall ==
    [ op |-> "none",            \* the function called
      triple |-> TripleHello,   \* its (messages, model, temperature)
      response |-> NoValue,     \* cache_response: its response argument
      now |-> 0,                \* the day of the call
      before |-> <<>>,          \* the directory when it was called
      ret |-> Miss ]            \* get_cached_response: what it returned

CacheInit ==
    /\ cache_dir = <<>>
    /\ clock = 0
    /\ cache_call = NoCacheCall

\* cache_response(messages, model, temperature, response)
CacheResponse(triple, response) ==
    /\ cache_dir' = prune_cache_if_needed(
                        WriteCacheFile(cache_dir, compute_cache_key(triple), clock,
                                       CacheText(clock, triple, response)),
                        clock)
    /\ cache_call' = [NoCacheCall EXCEPT !.op = "cache_response", !.triple = triple,
                                         !.response = response, !.now = clock,
                                         !.before = cache_dir]
    /\ UNCHANGED <<appVars, providerVars, heavyVars, clock>>

\* get_cached_response(messages, model, temperature)
GetCachedResponse(triple) ==
    /\ LET got == get_cached_response(cache_dir, clock, triple)
       IN /\ cache_dir' = got.dir
          /\ cache_call' = [NoCacheCall EXCEPT !.op = "get_cached_response",
                                               !.triple = triple, !.now = clock,
                                               !.before = cache_dir, !.ret = got.ret]
    /\ UNCHANGED <<appVars, providerVars, heavyVars, clock>>

\* Days go by between two calls.
Tick(days) ==
    /\ clock + days <= MaxClock
    /\ clock' = clock + days
    /\ cache_call' = NoCacheCall
    /\ UNCHANGED <<appVars, providerVars, heavyVars, cache_dir>>

(***************************************************************************)
(* providers/grok.py: GrokProvider.complete.  An exception of the API call *)
(* is [cls, has_status_code, status_code]; RateLimitError and              *)
(* AuthenticationError are subclasses of APIError.  Delays are counted in  *)
(* milliseconds.                                                           *)
(***************************************************************************)
max_retries == 5
initial_delay == 1000
max_delay == 60000

ApiException(cls, has_status_code, status_code) ==
    [cls |-> cls, has_status_code |-> has_status_code, status_code |-> status_code]
NoException == ApiException("", FALSE, 0)
RateLimited == ApiException("RateLimitError", TRUE, 429)
Unauthorized == ApiException("AuthenticationError", TRUE, 401)
ServerError == ApiException("InternalServerError", TRUE, 503)
BadRequest == ApiException("BadRequestError", TRUE, 400)
NoConnection == ApiException("APIConnectionError", FALSE, 0)
ApiExceptions == {RateLimited, Unauthorized, ServerError, BadRequest, NoConnection}

\* 0.5 + random.random(), in thousandths: its least value, the middle, and
\* close to its upper end.
Jitters == {500, 1000, 1499}

\* A loop that goes on after the last attempt.
AlwaysRetry(a) == TRUE

\* attempt < max_retries - 1
MayRetry(a) == a < max_retries - 1

\* min(initial_delay * (2**attempt), max_delay)
Backoff(a) ==
    IF initial_delay * (2 ^ a) < max_delay THEN initial_delay * (2 ^ a) ELSE max_delay

\* What complete gave back: the response, or the exception that left it.
NoCompletion == [returned |-> FALSE, raised |-> "", cause |-> NoException]
Completed == [NoCompletion EXCEPT !.returned = TRUE]
Raised(exc, cause) == [NoCompletion EXCEPT !.raised = exc, !.cause = cause]

ProviderInit ==
    /\ attempt = 0
    /\ ppc = "idle"
    /\ api_log = <<>>
    /\ delays = <<>>
    /\ complete_ret = NoCompletion

\* complete(...) up to the API call of its first attempt: range(max_retries)
\* is not empty.
Complete ==
    /\ ppc \in {"idle", "returned", "raised"}
    /\ attempt' = 0
    /\ ppc' = "calling"
    /\ api_log' = <<>>
    /\ delays' = <<>>
    /\ complete_ret' = NoCompletion
    /\ UNCHANGED <<appVars, cacheVars, heavyVars>>

\* The API call returns a response: complete returns.
ApiReturns ==
    /\ ppc = "calling"
    /\ api_log' = Append(api_log, NoException)
    /\ ppc' = "returned"
    /\ complete_ret' = Completed
    /\ UNCHANGED <<appVars, cacheVars, heavyVars, attempt, delays>>

\* time.sleep(delay), then continue.
Sleep(delay) ==
    /\ ppc' = "sleeping"
    /\ delays' = Append(delays, delay)
    /\ UNCHANGED complete_ret

\* An exception leaves complete.
Leave(exc, cause) ==
    /\ ppc' = "raised"
    /\ complete_ret' = Raised(exc, cause)
    /\ UNCHANGED delays

\* The API call raises e: the except clauses, in their order.
ApiRaises(e, jitter) ==
    /\ ppc = "calling"
    /\ e.cls # "RateLimitError" => jitter = 1000
    /\ api_log' = Append(api_log, e)
    /\ IF e.cls = "RateLimitError"
       THEN IF MayRetry(attempt)
            THEN Sleep((Backoff(attempt) * jitter) \div 1000)
            ELSE Leave("ValueError", e)
       ELSE IF e.cls = "AuthenticationError"
       THEN Leave("ValueError", e)
       ELSE IF MayRetry(attempt) /\ e.has_status_code
                 /\ 500 <= e.status_code /\ e.status_code < 600
            THEN Sleep(Backoff(attempt))
            ELSE Leave(e.cls, e)
    /\ UNCHANGED <<appVars, cacheVars, heavyVars, attempt>>

\* The sleep is over: the for loop takes the next attempt, or is at its end
\* and the raise after it is reached.
NextAttempt ==
    /\ ppc = "sleeping"
    /\ IF attempt + 1 < max_retries
       THEN /\ attempt' = attempt + 1
            /\ ppc' = "calling"
            /\ UNCHANGED complete_ret
       ELSE /\ ppc' = "raised"
            /\ complete_ret' = Raised("RuntimeError", NoException)
            /\ UNCHANGED attempt
    /\ UNCHANGED <<appVars, cacheVars, heavyVars, api_log, delays>>

\* The steps of a complete call under way.
CompleteStep ==
    \/ ApiReturns
    \/ \E e \in ApiExceptions, jitter \in Jitters : ApiRaises(e, jitter)
    \/ NextAttempt

(***************************************************************************)
(* commands/heavy.py.  Each agent's provider.complete runs in a worker     *)
(* thread of the pool (max_workers=3, three submits: one thread each);     *)
(* heavy_command runs in the main thread.                                  *)
(***************************************************************************)
\* AGENT_ROLES, in its order.
AgentNames == <<"coder", "reviewer", "optimizer">>
Agents == {AgentNames[i] : i \in 1..Len(AgentNames)}
AgentContents == {"", "answer"}

NoFuture == [state |-> "none", ok |-> FALSE, content |-> ""]
Running == [NoFuture EXCEPT !.state = "running"]
Finished(ok, content) == [state |-> "finished", ok |-> ok, content |-> content]

NoHeavyReturn == [returned |-> FALSE, raised |-> FALSE, content |-> ""]

HeavyInit ==
    /\ futures = [a \in Agents |-> NoFuture]
    /\ hpc = "idle"
    /\ responses = <<>>
    /\ meta_messages = <<>>
    /\ heavy_ret = NoHeavyReturn

\* heavy_command up to the first future.result(): the three submits.
HeavyCommand ==
    /\ hpc \in {"idle", "returned", "raised"}
    /\ futures' = [a \in Agents |-> Running]
    /\ hpc' = "collecting"
    /\ responses' = <<>>
    /\ meta_messages' = <<>>
    /\ heavy_ret' = NoHeavyReturn
    /\ UNCHANGED <<appVars, cacheVars, providerVars>>

\* A worker thread: provider.complete returns a response.
AgentReturns(a, content) ==
    /\ futures[a].state = "running"
    /\ futures' = [futures EXCEPT ![a] = Finished(TRUE, content)]
    /\ UNCHANGED <<appVars, cacheVars, providerVars, hpc, responses, meta_messages, heavy_ret>>

\* A worker thread: provider.complete raises.
AgentRaises(a) ==
    /\ futures[a].state = "running"
    /\ futures' = [futures EXCEPT ![a] = Finished(FALSE, "")]
    /\ UNCHANGED <<appVars, cacheVars, providerVars, hpc, responses, meta_messages, heavy_ret>>

\* A collecting loop that stops after its first future.
FirstCollected(collected) == Len(collected) >= 1

\* "Collect results": the for loop over futures.items() is at its end.
AllCollected(collected) == Len(collected) = Len(AgentNames)

\* One pass of "Collect results": future.result() returns the response of
\* the next agent, or raises its exception, once that agent has finished.
Collect ==
    /\ hpc = "collecting"
    /\ LET agent_name == AgentNames[Len(responses) + 1]
           future == futures[agent_name]
       IN /\ future.state = "finished"
          /\ IF future.ok
             THEN /\ responses' = Append(responses, <<agent_name, future.content>>)
                  /\ hpc' = IF AllCollected(responses') THEN "joining" ELSE "collecting"
             ELSE /\ hpc' = "unwinding"
                  /\ UNCHANGED responses
    /\ UNCHANGED <<appVars, cacheVars, providerVars, futures, meta_messages, heavy_ret>>

\* name.upper() of an agent's name.
Upper(name) ==
    CASE name = "coder" -> "CODER"
      [] name = "reviewer" -> "REVIEWER"
      [] name = "optimizer" -> "OPTIMIZER"

\* agents_output: one "AGENT NAME: response" per entry of agent_responses.
AgentsOutput(agent_responses) ==
    [i \in 1..Len(agent_responses) |->
        <<"AGENT ", Upper(agent_responses[i][1]), ": ", agent_responses[i][2]>>]

\* The with block of the executor is left (shutdown(wait=True): every
\* worker has finished): _run_parallel_agents returns and the meta-resolver
\* call is made, or the exception of future.result() leaves heavy_command.
ExecutorExit ==
    /\ hpc \in {"joining", "unwinding"}
    /\ \A a \in Agents : futures[a].state = "finished"
    /\ IF hpc = "joining"
       THEN /\ hpc' = "meta"
            /\ meta_messages' = AgentsOutput(responses)
            /\ UNCHANGED heavy_ret
       ELSE /\ hpc' = "raised"
            /\ heavy_ret' = [NoHeavyReturn EXCEPT !.raised = TRUE]
            /\ UNCHANGED meta_messages
    /\ UNCHANGED <<appVars, cacheVars, providerVars, futures, responses>>

\* The meta-resolver's provider.complete returns: heavy_command returns.
MetaReturns(content) ==
    /\ hpc = "meta"
    /\ hpc' = "returned"
    /\ heavy_ret' = [NoHeavyReturn EXCEPT !.returned = TRUE, !.content = content]
    /\ UNCHANGED <<appVars, cacheVars, providerVars, futures, responses, meta_messages>>

\* The meta-resolver's provider.complete raises.
MetaRaises ==
    /\ hpc = "meta"
    /\ hpc' = "raised"
    /\ heavy_ret' = [NoHeavyReturn EXCEPT !.raised = TRUE]
    /\ UNCHANGED <<appVars, cacheVars, providerVars, futures, responses, meta_messages>>

ServiceInit == CacheInit /\ ProviderInit /\ HeavyInit

(***************************************************************************)
(* The process: the state after the modules are loaded, and its steps.     *)
(***************************************************************************)
NoOutput == [status |-> "none", data |-> <<>>, forced |-> FALSE]
CompressIdle == cdata = <<>> /\ cmode = "never" /\ cout = NoOutput

FsInit ==
    /\ LAUNCH_DIR = OsCwd
    /\ CURRENT_DIR = OsCwd
    /\ DANGEROUS_MODE_ENABLED = FALSE
    /\ fs = InitFs
    /\ pc = "idle"
    /\ pending = NoPending
    /\ call = NoCall
    /\ nmut = 0

\* The caller has the result of the call and is ready for the next one (for
\* a tool, Agent.chat's loop; for a command, the REPL's).
Return ==
    /\ pc = "returned"
    /\ pc' = "idle"
    /\ call' = NoCall
    /\ UNCHANGED <<sandboxVars, fs, pending, nmut, sessionVars>>

Init == FsInit /\ CompressIdle /\ AgentInit /\ ServiceInit

Next ==
    \/ \E dangerous \in BOOLEAN, answer \in InitAnswers : InitSandbox(dangerous, answer)
    \/ \E path \in InputPaths : CheckPathAllowedCall(path)
    \/ \E path \in InputPaths : SetCurrentDirCall(path)
    \/ ExecUnknownTool
    \/ \E a \in ArgStates, path \in InputPaths : ExecReadFile(a, path)
    \/ \E a \in ArgStates, path \in InputPaths : ExecListFiles(a, path)
    \/ \E a \in ArgStates, path \in InputPaths, content \in Contents, auto \in BOOLEAN :
          ExecWriteFile(a, path, content, auto)
    \/ \E ans \in WriteAnswers, new_name \in InputPaths : WritePromptAnswer(ans, new_name)
    \/ \E ans \in ConfirmAnswers : WriteVerrsAnswer(ans)
    \/ \E a \in ArgStates, path \in InputPaths, old_text \in OldTexts,
          new_text \in NewTexts, auto \in BOOLEAN :
          ExecEditFile(a, path, old_text, new_text, auto)
    \/ \E ans \in ConfirmAnswers : EditConfirmAnswer(ans)
    \/ \E path \in InputPaths : CmdLs("ls", path)
    \/ \E path \in InputPaths : CmdLl(path)
    \/ \E has_arg \in BOOLEAN, path \in InputPaths : CmdCd(has_arg, path)
    \/ \E files \in PathLists : CmdCat(files)
    \/ \E files \in PathLists : CmdHead(files)
    \/ \E files \in PathLists : CmdTail(files)
    \/ \E make_parents \in BOOLEAN, paths \in PathLists : CmdMkdir(make_parents, paths)
    \/ \E path \in InputPaths : CmdTree(path)
    \/ \E source \in InputPaths, dest \in InputPaths : CmdCp(source, dest)
    \/ \E source \in InputPaths, dest \in InputPaths : CmdMv(source, dest)
    \/ \E recursive \in BOOLEAN, paths \in PathLists : CmdRm(recursive, paths)
    \/ Return

Spec == Init /\ [][Next]_vars

\* compress_session applied to the sessions of SessionInputs.
InitCompress ==
    /\ FsInit
    /\ cdata \in SessionInputs
    /\ cmode = "never"
    /\ cout = NoOutput
    /\ AgentInit
    /\ ServiceInit

NextCompress == \E mode \in Modes : CompressSession(mode)

SpecCompress == InitCompress /\ [][NextCompress]_vars

\* serialize_toon and parse_toon applied to the mappings of ToonInputs.
InitToon ==
    /\ FsInit
    /\ cdata \in ToonInputs
    /\ cmode = "never"
    /\ cout = NoOutput
    /\ AgentInit
    /\ ServiceInit

NextToon == ToonRoundTrip

SpecToon == InitToon /\ [][NextToon]_vars

\* Conversations saved with messages_to_toon and resumed with
\* toon_to_messages.
InitTalk ==
    /\ FsInit
    /\ cdata \in Talks
    /\ cmode = "never"
    /\ cout = NoOutput
    /\ AgentInit
    /\ ServiceInit

NextTalk == SaveAndResume

SpecTalk == InitTalk /\ [][NextTalk]_vars

\* The conversation loop: chat calls, one after the other.
NextAgent ==
    \/ \E user_message \in {TextShort} : Chat(user_message)
    \/ ChatStep

SpecAgent == Init /\ [][NextAgent]_vars

\* chat is one thread of control: a step it can take, it takes; a model call
\* returns or raises (the client times out), execute_tool returns.
SpecAgentFair == SpecAgent /\ WF_vars(ChatStep)

\* The conversation loop with responses whose tool calls go wrong.
NextErrors ==
    \/ \E user_message \in {TextShort} : Chat(user_message)
    \/ \E calls \in ErrorCallLists : ModelRequestsTools(calls)
    \/ ModelAnswers
    \/ ModelRaises
    \/ \E final_content \in FinalContents : FinalResponse(final_content)
    \/ ExecuteTool
    \/ ToolInterrupted

SpecErrors == Init /\ [][NextErrors]_vars

\* The response cache: stores, lookups and days going by.
InitCache ==
    /\ FsInit
    /\ CompressIdle
    /\ AgentInit
    /\ cache_dir \in InitialCaches
    /\ clock = 0
    /\ cache_call = NoCacheCall
    /\ ProviderInit
    /\ HeavyInit

NextCache ==
    \/ \E triple \in StoredTriples, response \in Responses : CacheResponse(triple, response)
    \/ \E triple \in Triples : GetCachedResponse(triple)
    \/ \E days \in {15, 16} : Tick(days)

SpecCache == InitCache /\ [][NextCache]_vars

\* The provider: complete calls, one after the other.
NextProvider == Complete \/ CompleteStep

SpecProvider == Init /\ [][NextProvider]_vars

\* complete is one thread of control: the API call returns or raises (the
\* client has a timeout), and time.sleep returns.
SpecProviderFair == SpecProvider /\ WF_vars(CompleteStep)

\* Heavy mode: the main thread and the three worker threads.
NextHeavy ==
    \/ HeavyCommand
    \/ \E a \in Agents, content \in AgentContents : AgentReturns(a, content)
    \/ \E a \in Agents : AgentRaises(a)
    \/ Collect
    \/ ExecutorExit
    \/ \E content \in AgentContents : MetaReturns(content)
    \/ MetaRaises

SpecHeavy == Init /\ [][NextHeavy]_vars

\* The tools alone: execute_tool, the prompts it blocks in, and cd.
NextTools ==
    \/ \E dangerous \in BOOLEAN, answer \in InitAnswers : InitSandbox(dangerous, answer)
    \/ ExecUnknownTool
    \/ \E a \in ArgStates, path \in InputPaths : ExecReadFile(a, path)
    \/ \E a \in ArgStates, path \in InputPaths : ExecListFiles(a, path)
    \/ \E a \in ArgStates, path \in InputPaths, content \in Contents, auto \in BOOLEAN :
          ExecWriteFile(a, path, content, auto)
    \/ \E ans \in WriteAnswers, new_name \in InputPaths : WritePromptAnswer(ans, new_name)
    \/ \E ans \in ConfirmAnswers : WriteVerrsAnswer(ans)
    \/ \E a \in ArgStates, path \in InputPaths, old_text \in OldTexts,
          new_text \in NewTexts, auto \in BOOLEAN :
          ExecEditFile(a, path, old_text, new_text, auto)
    \/ \E ans \in ConfirmAnswers : EditConfirmAnswer(ans)
    \/ \E has_arg \in BOOLEAN, path \in InputPaths : CmdCd(has_arg, path)
    \/ Return

SpecTools == Init /\ [][NextTools]_vars

(***************************************************************************)
(* The properties.                                                         *)
(***************************************************************************)
ToolOps == {"unknown_tool", "read_file", "list_files", "write_file", "edit_file"}

\* The call wrote a file: a path it changed is now a regular file.
FileChanged == \E p \in call.changed : Kind(fs, p) = "file"

\* compress_session went past "Start compression" and returned a dict.
ForcedReturned == cout.forced /\ cout.status = "returned"

\* C1: check_path_allowed returns the canonical path if and only if that
\* path is the sandbox root or a descendant of it; for every path that
\* canonicalizes outside the root it raises PermissionError and returns
\* nothing.
C1_Containment ==
    call.op = "check_path_allowed" =>
        /\ call.returned <=> IsPrefix(LAUNCH_DIR, call.canon)
        /\ ~call.returned => call.raised = "PermissionError"

\* C2: the sandbox cannot be disabled: whatever init_sandbox calls were made,
\* with whatever flag and answer, check_path_allowed and set_current_dir
\* reject every path that canonicalizes outside the launch directory.
C2_NeverDisabled ==
    (/\ call.op \in {"check_path_allowed", "set_current_dir"}
     /\ ~IsPrefix(LAUNCH_DIR, call.canon))
        => (call.raised = "PermissionError" /\ ~call.returned)

\* C3: the current directory is the sandbox root or a descendant of it, after
\* any sequence of set_current_dir calls and cd commands.
C3_CurrentDirWithinRoot == IsPrefix(LAUNCH_DIR, CURRENT_DIR)

\* C4: every path a file tool or a shell command accesses has passed the
\* sandbox check in that same call, and the target pending at write_file's
\* prompt is one that passed the check (a rejected rename leaves it as it
\* was).
C4_ChokePoint ==
    /\ call.unchecked = {}
    /\ pc = "write_prompt" =>
          /\ CheckPathAllowed(fs, pending.path).ok
          /\ pending.abs_path = CheckPathAllowed(fs, pending.path).resolved

\* C5: execute_tool returns a tagged result, success with a result or failure
\* with an error and never both, and no exception leaves it, for every tool
\* name and argument set.
C5_TaggedResult ==
    (pc = "returned" /\ call.op \in ToolOps) =>
        /\ call.raised = ""
        /\ call.returned
        /\ call.result.has_result # call.result.has_error
        /\ call.result.success <=> call.result.has_result

\* C5's case: a filesystem error inside a tool came back as a failure.
C5_Witness ==
    /\ pc = "returned"
    /\ call.op = "edit_file"
    /\ call.returned
    /\ call.result = Failure("IsADirectoryError")

\* C6: with auto-confirm off, write_file and edit_file write the target only
\* after the user accepted at a prompt of the same call; when the user
\* declines, the call returns failure and no file is written; with
\* auto-confirm on, no prompt is shown.
C6_ConfirmGated ==
    call.op \in {"write_file", "edit_file"} =>
        /\ (~call.auto /\ FileChanged) => call.accepted
        /\ call.declined =>
              /\ pc = "returned"
              /\ call.result.has_error
              /\ ~call.result.success
              /\ ~FileChanged
        /\ call.auto => ~call.prompted

\* C6's case: an edit with auto-confirm off was prompted, accepted and written.
C6_Witness ==
    /\ pc = "returned"
    /\ call.op = "edit_file"
    /\ ~call.auto
    /\ call.prompted
    /\ call.accepted
    /\ FileChanged

\* C7: for mode "always" or "smart", compress_session returns no dict whose
\* estimate is above 20000 tokens; when the compressed dict is above it, the
\* call raises and returns nothing.
C7_NeverOverCeiling ==
    /\ (cout.status = "returned" /\ cmode \in {"always", "smart"}) =>
          estimate_toon_tokens(serialize_toon(cout.data)) <= HardCeiling
    /\ cout.status = "raised" =>
          /\ cout.forced
          /\ cout.data = <<>>
          /\ estimate_toon_tokens(serialize_toon(Compressed(cdata))) > HardCeiling

\* C7's case: under "smart", what must be kept is above the ceiling, and the
\* call raised.
C7_Witness ==
    /\ cmode = "smart"
    /\ cout.status = "raised"
    /\ Key_goal \in DOMAIN cdata

\* C8: under forced compression that returns, every entry whose key is goal,
\* decisions, cwd, files_hash or open, or starts with "files" or "diff", is in
\* the output with its input value, scalar or list.
C8_StructuralPreserved ==
    ForcedReturned =>
        \A k \in DOMAIN cdata :
            (\/ k \in {Key_goal, Key_decisions, Key_cwd, Key_files_hash, Key_open}
             \/ StartsWith(k, <<"f", "i", "l", "e", "s">>)
             \/ StartsWith(k, <<"d", "i", "f", "f">>))
                => (k \in DOMAIN cout.data /\ cout.data[k] = cdata[k])

\* C8's case: "smart" above the soft trigger compressed a session that holds
\* a list-valued diff entry.
C8_Witness ==
    /\ cmode = "smart"
    /\ ForcedReturned
    /\ cout.data # cdata
    /\ \E k \in DOMAIN cdata : StartsWith(k, <<"d", "i", "f", "f">>) /\ cdata[k].kind = "list"

\* C9: under forced compression that returns, every entry whose key contains
\* "api", "secret" or "key" in any case is in the output with its input value,
\* whether the value is a scalar or a list.
C9_SecretsPreserved ==
    ForcedReturned =>
        \A k \in DOMAIN cdata :
            IsSecretKey(k) => (k \in DOMAIN cout.data /\ cout.data[k] = cdata[k])

\* The message number in a turn key: the digits after "turn_".
DigitValue(ch) == CHOOSE d \in 0..9 : DigitChars[d + 1] = ch
RECURSIVE ParseDecimal(_, _)
ParseDecimal(chars, acc) ==
    IF chars = <<>> \/ ~InSeq(Head(chars), DigitChars) THEN acc
    ELSE ParseDecimal(Tail(chars), 10 * acc + DigitValue(Head(chars)))
TurnNumber(k) == ParseDecimal(SubSeq(k, 6, Len(k)), 0)

\* The turn entries of the most recent 3 exchanges: the (at most 6) turn keys
\* with the highest message numbers.
RecentTurns(data) ==
    LET T == {k \in DOMAIN data : IsTurnKey(k)}
    IN {k \in T : Cardinality({j \in T : TurnNumber(j) > TurnNumber(k)}) < ProtectedTurns}

\* C10: under forced compression, the turn entries in the output are exactly
\* those of the most recent 3 exchanges in conversation order, with their
\* input values, for a conversation of any length; earlier ones are absent.
C10_RecentExchangesVerbatim ==
    ForcedReturned =>
        /\ {k \in DOMAIN cout.data : IsTurnKey(k)} = RecentTurns(cdata)
        /\ \A k \in RecentTurns(cdata) : cout.data[k] = cdata[k]

\* The turn keys of S in conversation order: by message number.
RECURSIVE ByNumber(_)
ByNumber(S) ==
    IF S = {} THEN <<>>
    ELSE LET first == CHOOSE k \in S : \A j \in S : TurnNumber(k) <= TurnNumber(j)
         IN <<first>> \o ByNumber(S \ {first})

\* The historical turn entries: those before the most recent 3 exchanges.
HistoricalTurns(data) == {k \in DOMAIN data : IsTurnKey(k)} \ RecentTurns(data)

\* C11: under forced compression of a session with n historical turn entries,
\* n >= 1 gives one list-valued history entry of min(n, 15) summaries, those
\* of the min(n, 15) most recent historical entries, scalar or list, oldest
\* first; n = 0 gives no history entry.
C11_HistoryOfHistorical ==
    ForcedReturned =>
        LET hist == ByNumber(HistoricalTurns(cdata))
            n == Len(hist)
            m == IF n < HistoryCap THEN n ELSE HistoryCap
        IN IF n = 0 THEN Key_history \notin DOMAIN cout.data
           ELSE /\ Key_history \in DOMAIN cout.data
                /\ cout.data[Key_history].kind = "list"
                /\ Len(cout.data[Key_history].items) = m
                /\ \A i \in 1..m :
                      cdata[hist[n - m + i]].kind = "str" =>
                          cout.data[Key_history].items[i] =
                              Summary(cdata[hist[n - m + i]].items[1])

\* The summaries compress_session put in the history entry.
HistorySummaries ==
    IF ForcedReturned /\ Key_history \in DOMAIN cout.data
    THEN {cout.data[Key_history].items[i] : i \in 1..Len(cout.data[Key_history].items)}
    ELSE {}

C13_IdentityWhenNotTriggered ==
    cout.status # "none" =>
        /\ cmode = "never" => (cout.status = "returned" /\ cout.data = cdata)
        /\ (cmode = "smart" /\
               SWords(serialize_toon(cdata)) + SLen(serialize_toon(cdata)) \div 4 < SoftTrigger)
              => (cout.status = "returned" /\ cout.data = cdata)

\* C13's case: "smart" left alone a session below the soft trigger that
\* compression would have changed (it has more than 6 turn entries).
C13_Witness ==
    /\ cmode = "smart"
    /\ cout.status = "returned"
    /\ cout.data = cdata
    /\ Compressed(cdata) # cdata
    /\ Cardinality({k \in DOMAIN cdata : IsTurnKey(k)}) > ProtectedTurns

\* C14: parse_toon(serialize_toon(m)) is m: the same keys, equal values, list
\* or scalar as in m, list elements in the same order, for scalars wider than
\* 120 characters, values of several lines and lists of any length too.
C14_RoundTrip == cout.status = "decoded" => cout.data = cdata

\* C15: toon_to_messages(messages_to_toon(turns)) has as many turns as the
\* conversation, with the same roles in the same order, for a conversation of
\* any length.
C15_TurnOrderSurvives ==
    cout.status = "resumed" =>
        /\ Len(cout.data) = Len(cdata)
        /\ \A i \in 1..Len(cdata) : cout.data[i].role = RoleText(cdata[i].role)

\* execute_tool returned from an edit_file or a write_file call.
EditReturned == pc = "returned" /\ call.op = "edit_file" /\ call.returned
WriteReturned == pc = "returned" /\ call.op = "write_file" /\ call.returned

\* The path of the call passes the sandbox check.
CallAllowed == DANGEROUS_MODE_ENABLED \/ IsPrefix(LAUNCH_DIR, call.canon)

\* The places where old starts in s.
Matches(s, old) == {i \in 1..(Len(s) - Len(old) + 1) : SubSeq(s, i, i + Len(old) - 1) = old}

\* The occurrences of old in s, from the left and not overlapping: no two of
\* them overlap, and every other place where old starts lies inside one.
Occurrences(s, old) ==
    CHOOSE P \in SUBSET Matches(s, old) :
        /\ \A p, q \in P : p < q => p + Len(old) <= q
        /\ \A m \in Matches(s, old) :
              m \in P \/ \E p \in P : p < m /\ m < p + Len(old)

\* s with the occurrences P of old replaced by new, position by position.
Replaced(s, old, new, P) ==
    LET d == Len(new) - Len(old)
        Start(p) == p + Cardinality({q \in P : q < p}) * d
        Place(i) == i + Cardinality({q \in P : q <= i}) * d
        Kept == {i \in 1..Len(s) : \A p \in P : i < p \/ i >= p + Len(old)}
    IN [k \in 1..(Len(s) + Cardinality(P) * d) |->
          IF \E p \in P : Start(p) <= k /\ k < Start(p) + Len(new)
          THEN LET p == CHOOSE q \in P : Start(q) <= k /\ k < Start(q) + Len(new)
               IN new[k - Start(p) + 1]
          ELSE s[CHOOSE i \in Kept : Place(i) = k]]

\* C16: an edit_file call that is accepted, or succeeds, found old_text in
\* the content, wrote the content with every occurrence of old_text replaced
\* by new_text, and names the number of occurrences in its result; "abcabc"
\* with "abc" replaced by "X" is "XX", with 2 replacements.
C16_AllOccurrencesReplaced ==
    (EditReturned /\ (call.result.success \/ call.accepted)) =>
        LET s == call.before.content
            P == Occurrences(s, call.args.old_text)
        IN /\ call.before.kind = "file"
           /\ P # {}
           /\ call.result.success
           /\ fs[call.canon] = FileNode(Replaced(s, call.args.old_text, call.args.new_text, P))
           /\ call.result.n = Cardinality(P)
           /\ (s = TextAbcAbc /\ call.args = [old_text |-> <<"a", "b", "c">>,
                                               new_text |-> <<"X">>])
                 => (fs[call.canon].content = <<"X", "X">> /\ call.result.n = 2)

\* C16's case: "abc" replaced by "X" in "abcabc".
C16_Witness ==
    /\ EditReturned
    /\ call.result.success
    /\ call.before.content = TextAbcAbc
    /\ call.args = [old_text |-> <<"a", "b", "c">>, new_text |-> <<"X">>]
    /\ fs[call.canon].content = <<"X", "X">>

\* C17: an edit_file call that returns failure changed nothing on disk; with
\* old_text absent from the content the failure is "not found", and so it is
\* for a missing file; a declined confirmation writes nothing.
C17_FailedEditWritesNothing ==
    (EditReturned /\ ~call.result.success) =>
        /\ call.changed = {}
        /\ Before(fs, call.canon) = call.before
        /\ (CallAllowed /\ call.before.kind = "none") =>
              call.result = Failure("File not found")
        /\ (CallAllowed /\ call.before.kind = "file"
              /\ Matches(call.before.content, call.args.old_text) = {}) =>
              call.result = Failure("Text not found")

\* C17's case: the user declined an edit whose old_text is in the file.
C17_Witness ==
    /\ EditReturned
    /\ call.declined
    /\ ~call.result.success
    /\ call.before.kind = "file"
    /\ Matches(call.before.content, call.args.old_text) # {}

\* The bytes Path.write_text writes for a character and for a text (UTF-8).
Utf8Len(ch) == IF ch = "e-acute" THEN 2 ELSE 1
RECURSIVE Utf8Bytes(_)
Utf8Bytes(content) ==
    IF content = <<>> THEN 0 ELSE Utf8Len(Head(content)) + Utf8Bytes(Tail(content))

\* C18: write_file with auto-confirm on, to a path inside the sandbox root
\* where nothing exists, succeeds with no prompt; the file then holds the
\* given content, and the result names the number of bytes written.
C18_AutoWriteNewFile ==
    (WriteReturned /\ call.auto /\ call.before.kind = "none"
        /\ IsPrefix(LAUNCH_DIR, call.canon)) =>
        /\ call.result.success
        /\ ~call.prompted
        /\ Kind(fs, call.canon) = "file"
        /\ fs[call.canon].content = call.args.content
        /\ call.result.n = Utf8Bytes(call.args.content)

\* The assistant turns of the list that carry tool calls, by position.
ToolRequestTurns == {p \in 1..Len(messages) : "tool_calls" \in DOMAIN messages[p]}

\* How many of the tool calls of the turn at p have run: all of them, but for
\* the turn whose calls the for loop is at.
RanOf(p) ==
    IF apc = "executing" /\ \A q \in ToolRequestTurns : q <= p
    THEN tc - 1
    ELSE Len(messages[p].tool_calls)

\* The tool runs logged since the last model call of the log.
RunsSinceCall ==
    LET calls == {i \in 1..Len(log) : log[i][1] # "exec"}
        last == CHOOSE i \in calls : \A j \in calls : j <= i
    IN SubSeq(log, last + 1, Len(log))

\* C19: the tool calls of a response run one after the other in the order
\* given; each leaves exactly one tool turn with its id and its result, in
\* that order, right after the assistant turn that carries the calls; while a
\* model call is under way every tool call of the list has its tool turn.
C19_ToolTurnsInOrder ==
    /\ \A p \in ToolRequestTurns :
          LET calls == messages[p].tool_calls
              n == RanOf(p)
          IN /\ p + n <= Len(messages)
             /\ \A j \in 1..n :
                   messages[p + j] =
                       [role |-> "tool", tool_call_id |-> calls[j].id,
                        content |-> IF calls[j].name = "read_file"
                                    THEN <<"content">>
                                    ELSE <<"Error: ", "Unknown tool">>]
             /\ p + n < Len(messages) => messages[p + n + 1].role # "tool"
    /\ apc = "executing" =>
          RunsSinceCall = [j \in 1..(tc - 1) |-> <<"exec", tool_calls[j].id>>]
    /\ apc \in {"awaiting", "streaming", "fallback"} =>
          /\ \A p \in ToolRequestTurns : RanOf(p) = Len(messages[p].tool_calls)
          /\ messages[Len(messages)].role \in {"user", "tool"}

\* C19's case: the second model call is under way after a response with two
\* tool calls, call_2 before call_1.
C19_Witness ==
    /\ apc = "awaiting"
    /\ iteration = 2
    /\ Len(messages) = 5
    /\ messages[3].tool_calls = <<Call2, Call1>>
    /\ messages[4].tool_call_id = "call_2"
    /\ messages[5].tool_call_id = "call_1"

\* The tool-checking model calls and the streaming calls of the log.
Creates == Cardinality({i \in 1..Len(log) : log[i] = <<"create">>})
Streams == Cardinality({i \in 1..Len(log) : log[i] = <<"stream">>})

\* C20: every chat call ends (it returns, or an exception of a model call or
\* an interrupt leaves it); it makes at most 10 tool-checking model calls,
\* and when all 10 responses carry tool calls it makes no further model call
\* and returns the "too many steps" message.
C20_ChatEnds ==
    /\ [](Creates <= 10)
    /\ []((apc = "done" /\ Creates = 10 /\ Streams = 0) =>
             (chat_return = TooManySteps /\ log[Len(log)][1] = "exec"))
    /\ [](chat_return = TooManySteps => (apc = "done" /\ Creates = 10 /\ Streams = 0))
    /\ ((apc \notin {"idle", "done", "raised"}) ~> (apc \in {"done", "raised"}))

\* C20's case: ten responses with tool calls, and chat returned.
C20_Witness ==
    /\ apc = "done"
    /\ Creates = 10
    /\ chat_return = TooManySteps

\* The tool call the for loop is at is one execute_tool fails on, and
\* execute_tool runs it in this step.
FailingToolRuns ==
    /\ apc = "executing"
    /\ ~ExecuteToolResult(tool_calls[tc]).success
    /\ Len(log') > Len(log)
    /\ log'[Len(log) + 1] = <<"exec", tool_calls[tc].id>>

\* The step appends one tool turn that answers the call the loop is at and
\* whose content starts with "Error: ".
ErrorTurnAppended ==
    /\ Len(messages') = Len(messages) + 1
    /\ SubSeq(messages', 1, Len(messages)) = messages
    /\ LET turn == messages'[Len(messages')]
       IN /\ turn.role = "tool"
          /\ turn.tool_call_id = tool_calls[tc].id
          /\ Len(turn.content) > 1
          /\ turn.content[1] = "Error: "

\* C21: a tool call that fails (file not found, sandbox violation, declined
\* by the user, unknown tool, or arguments that are no JSON and are taken as
\* the empty argument set) does not end the conversation loop: its error is
\* appended as a tool turn whose content starts with "Error: ", the loop
\* goes on to the next tool call of the response, and after the last one to
\* the next model call (or, when that was the tenth response, chat returns
\* the "too many steps" message as it does after any tenth response with
\* tool calls); no tool turn of a failed call is missing while a model call
\* is under way.
C21_FailingToolGoesOn ==
    /\ [][FailingToolRuns =>
            \/ /\ tc < Len(tool_calls)
               /\ ErrorTurnAppended
               /\ apc' = "executing"
               /\ tc' = tc + 1
               /\ tool_calls' = tool_calls
            \/ /\ tc = Len(tool_calls)
               /\ iteration < 10
               /\ ErrorTurnAppended
               /\ apc' = "awaiting"
               /\ iteration' = iteration + 1
               /\ log'[Len(log')] = <<"create">>
            \/ /\ tc = Len(tool_calls)
               /\ iteration = 10
               /\ apc' = "done"
               /\ chat_return' = TooManySteps]_vars
    /\ [](apc \in {"awaiting", "streaming", "fallback"} =>
            \A p \in ToolRequestTurns :
                \A j \in 1..Len(messages[p].tool_calls) :
                    /\ p + j <= Len(messages)
                    /\ messages[p + j].role = "tool"
                    /\ messages[p + j].tool_call_id = messages[p].tool_calls[j].id
                    /\ ~ExecuteToolResult(messages[p].tool_calls[j]).success =>
                           messages[p + j].content[1] = "Error: ")

\* C21's case: the second model call is under way after a response whose
\* first five tool calls failed, each in its own way, and whose sixth ran.
C21_Witness ==
    /\ apc = "awaiting"
    /\ iteration = 2
    /\ Len(messages) = 9
    /\ messages[4] = [role |-> "tool", tool_call_id |-> "call_3",
                      content |-> <<"Error: ", "KeyError">>]
    /\ messages[5].content = <<"Error: ", "PermissionError">>
    /\ messages[6].content = <<"Error: ", "File not found">>
    /\ messages[7].content = <<"Error: ", "User cancelled">>
    /\ messages[8].content = <<"Error: ", "Unknown tool">>
    /\ messages[9] = [role |-> "tool", tool_call_id |-> "call_1", content |-> <<"content">>]

\* The files of a directory that hold the request triple u.
FilesOf(dir, u) ==
    {i \in 1..Len(dir) : /\ dir[i].text.messages = u.messages
                         /\ dir[i].text.model = u.model
                         /\ dir[i].text.temperature = u.temperature}

\* A file written by cache_response on `day` with response r.
WrittenWith(file, day, r) ==
    /\ file.text.json = "object"
    /\ file.text.cached_at = <<"iso", day>>
    /\ file.text.response = <<"dict", r.content, r.usage.total_tokens>>

\* What a lookup of u should give in a directory on day `now`: the response
\* of u's entry if it is well formed and at most 30 days old, else a miss.
Answer(dir, now, u) ==
    IF \E i \in FilesOf(dir, u), d \in 0..now, r \in Responses :
          WrittenWith(dir[i], d, r) /\ now - d <= 30
    THEN LET i == CHOOSE i \in FilesOf(dir, u) : TRUE
         IN [hit |-> TRUE,
             value |-> CHOOSE r \in Responses : \E d \in 0..now : WrittenWith(dir[i], d, r)]
    ELSE [hit |-> FALSE, value |-> NoValue]

\* Right after cache_response the entry of its triple, unless evicted at
\* once, answers with its response; get_cached_response returns the answer
\* of its triple's entry, and a miss for a triple no file holds.
StoredIsReturned ==
    /\ cache_call.op = "cache_response" =>
          \/ FilesOf(cache_dir, cache_call.triple) = {}
          \/ Answer(cache_dir, cache_call.now, cache_call.triple) =
                 [hit |-> TRUE, value |-> cache_call.response]
    /\ cache_call.op = "get_cached_response" =>
          /\ cache_call.ret = Answer(cache_call.before, cache_call.now, cache_call.triple)
          /\ FilesOf(cache_call.before, cache_call.triple) = {} =>
                (~cache_call.ret.hit /\ cache_dir = cache_call.before)

\* The size of the directory right after cache_response wrote its file: the
\* new file and the files of other triples that are not too old by their
\* modification time.
SizeAfterWrite ==
    LET others == SelectSeq(cache_call.before,
                            LAMBDA f : /\ cache_call.now - f.st_mtime <= 30
                                       /\ <<f.text.messages, f.text.model,
                                            f.text.temperature>> #
                                          <<cache_call.triple.messages,
                                            cache_call.triple.model,
                                            cache_call.triple.temperature>>)
    IN TotalSize(others) + (IF cache_call.response = LongAnswer
                            THEN 300 * 1024 * 1024 ELSE 1024)

\* C22 as stated: a stored response is returned for its triple while its
\* entry is at most 30 days old and not evicted, a triple never stored gives
\* a miss, and no call on one triple changes what a lookup of another triple
\* gives.
C22_OtherTriplesUntouched ==
    /\ StoredIsReturned
    /\ cache_call.op # "none" =>
          \A u \in Triples \ {cache_call.triple} :
              Answer(cache_dir, cache_call.now, u) =
                  Answer(cache_call.before, cache_call.now, u)

\* C22: a stored response is returned for its triple while its entry is at
\* most 30 days old and not evicted, a triple never stored gives a miss, and
\* a call on one triple changes what a lookup of another triple gives only
\* when it is a cache_response that leaves more than 500 MB of files in the
\* directory: then the other triple's entry may be evicted, and its lookup
\* becomes a miss.
C22_OtherTriplesUntouchedButEvicted ==
    /\ StoredIsReturned
    /\ cache_call.op # "none" =>
          \A u \in Triples \ {cache_call.triple} :
              \/ Answer(cache_dir, cache_call.now, u) =
                     Answer(cache_call.before, cache_call.now, u)
              \/ /\ cache_call.op = "cache_response"
                 /\ FilesOf(cache_dir, u) = {}
                 /\ SizeAfterWrite > 500 * 1024 * 1024

\* C22's case: goodbye was stored while hello was in the cache, and the
\* lookup of hello returns hello's response, 30 days after it was stored.
C22_Witness ==
    /\ cache_call.op = "get_cached_response"
    /\ cache_call.triple = TripleHello
    /\ cache_call.now = 30
    /\ cache_call.ret = [hit |-> TRUE, value |-> ShortAnswer]
    /\ FilesOf(cache_dir, TripleGoodbye) # {}
    /\ FilesOf(cache_dir, TripleCold) = {}

\* The entry of the looked-up triple was written more than 30 days before
\* the lookup.
ExpiredBefore ==
    \E i \in FilesOf(cache_call.before, cache_call.triple) :
        LET text == cache_call.before[i].text
        IN /\ text.json = "object"
           /\ text.cached_at[1] = "iso"
           /\ cache_call.now - text.cached_at[2] > 30

\* C23: get_cached_response on an entry written more than 30 days before
\* reports a miss and deletes the entry: no file of the triple is left.
C23_ExpiredNeverReturned ==
    (cache_call.op = "get_cached_response" /\ ExpiredBefore) =>
        /\ ~cache_call.ret.hit
        /\ FilesOf(cache_dir, cache_call.triple) = {}

\* C23's case: a lookup on day 31 of a response stored on day 0.
C23_Witness ==
    /\ cache_call.op = "get_cached_response"
    /\ cache_call.now = 31
    /\ ExpiredBefore
    /\ \E i \in FilesOf(cache_call.before, cache_call.triple) :
          WrittenWith(cache_call.before[i], 0, LongAnswer)
    /\ cache_call.ret = [hit |-> FALSE, value |-> NoValue]

\* The entry of the looked-up triple is unreadable or malformed: no JSON, no
\* JSON object, no cached_at or one that is no date, or a response that is
\* no mapping.
MalformedBefore ==
    \E i \in FilesOf(cache_call.before, cache_call.triple) :
        LET text == cache_call.before[i].text
        IN \/ text.json # "object"
           \/ text.cached_at[1] # "iso"
           \/ text.response[1] # "dict"

\* C26: get_cached_response on an unreadable or malformed entry reports a
\* miss and deletes the entry.
C26_MalformedDeleted ==
    (cache_call.op = "get_cached_response" /\ MalformedBefore) =>
        /\ ~cache_call.ret.hit
        /\ FilesOf(cache_dir, cache_call.triple) = {}

\* C24: set_current_dir with a canonical target outside the root raises
\* PermissionError and leaves CURRENT_DIR as it was; with a target inside the
\* root it sets CURRENT_DIR to the canonical target; LAUNCH_DIR stays as it
\* was in both cases.
C24_CdOutsideFails ==
    [][(pc = "idle" /\ call'.op = "set_current_dir") =>
          /\ LAUNCH_DIR' = LAUNCH_DIR
          /\ IF IsPrefix(LAUNCH_DIR, call'.canon)
             THEN call'.returned /\ CURRENT_DIR' = call'.canon
             ELSE /\ call'.raised = "PermissionError"
                  /\ ~call'.returned
                  /\ CURRENT_DIR' = CURRENT_DIR]_vars

\* C25: a write_file call that returns failure changed nothing on disk: the
\* target is as it was before the call and no directory was created.
C25_FailedWriteChangesNothing ==
    (WriteReturned /\ ~call.result.success) =>
        /\ call.changed = {}
        /\ Before(fs, call.canon) = call.before

\* The exceptions complete tries again after: a rate limit, a server error.
Retried(e) ==
    \/ e.cls = "RateLimitError"
    \/ e.has_status_code /\ e.status_code \in 500..599

\* C27: a complete call makes at most 5 API calls and ends; it makes a
\* further call only after a rate-limit or server (5xx) error and only while
\* fewer than 5 calls were made, after a delay of 1 s doubled with each
\* attempt (for a rate limit times a jitter in [0.5, 1.5)) that stays under
\* 60 s; the fifth such error leaves complete; an authentication or client
\* (4xx) error leaves it at once; the RuntimeError after the loop is never
\* raised.
C27_CompleteEnds ==
    /\ [](Len(api_log) <= 5)
    /\ [](\A i \in 1..Len(api_log) :
             i < Len(api_log) => (Retried(api_log[i]) /\ i < 5))
    /\ [](\A i \in 1..Len(delays) :
             /\ Retried(api_log[i])
             /\ delays[i] <= 60000
             /\ IF api_log[i].cls = "RateLimitError"
                THEN /\ 2 * delays[i] >= 1000 * (2 ^ (i - 1))
                     /\ 2 * delays[i] < 3 * 1000 * (2 ^ (i - 1))
                ELSE delays[i] = 1000 * (2 ^ (i - 1)))
    /\ [](ppc \in {"returned", "raised"} =>
             LET last == api_log[Len(api_log)]
             IN /\ Len(api_log) >= 1
                /\ complete_ret.returned <=> last = NoException
                /\ (last # NoException /\ Retried(last)) => Len(api_log) = 5
                /\ last.cls = "RateLimitError" => complete_ret.raised = "ValueError"
                /\ last.cls = "AuthenticationError" => complete_ret.raised = "ValueError"
                /\ last.cls \notin {"", "RateLimitError", "AuthenticationError"} =>
                      complete_ret.raised = last.cls)
    /\ [](ppc = "sleeping" => Len(api_log) < 5)
    /\ [](complete_ret.raised # "RuntimeError")
    /\ ((ppc \in {"calling", "sleeping"}) ~> (ppc \in {"returned", "raised"}))

\* C27's case: four rate-limit and server errors, each followed by its
\* delay, and a fifth that left complete.
C27_Witness ==
    /\ ppc = "raised"
    /\ Len(api_log) = 5
    /\ Len(delays) = 4
    /\ api_log[1] = RateLimited
    /\ api_log[2] = ServerError
    /\ api_log[5] = ServerError
    /\ delays[2] = 2000
    /\ delays[4] = 8000

\* The meta-resolver call has been made in this heavy_command call.
MetaIssued == meta_messages # <<>>

\* C28: the three agent calls are under way together from the submits on;
\* the meta-resolver call is made only when all three have finished with a
\* response, and its prompt holds the three responses, whatever the order
\* the agents finished in; when an agent call failed, no meta-resolver call
\* is made, heavy_command returns nothing and ends by raising.
C28_MetaAfterAllThree ==
    /\ hpc \in {"collecting", "joining", "unwinding"} =>
          \A a \in Agents : futures[a].state \in {"running", "finished"}
    /\ MetaIssued =>
          /\ \A a \in Agents : futures[a].state = "finished" /\ futures[a].ok
          /\ meta_messages =
                 << <<"AGENT ", "CODER", ": ", futures["coder"].content>>,
                    <<"AGENT ", "REVIEWER", ": ", futures["reviewer"].content>>,
                    <<"AGENT ", "OPTIMIZER", ": ", futures["optimizer"].content>> >>
    /\ hpc \in {"meta", "returned"} => MetaIssued
    /\ heavy_ret.returned => (MetaIssued /\ hpc = "returned")
    /\ (\E a \in Agents : futures[a].state = "finished" /\ ~futures[a].ok) =>
          /\ ~MetaIssued
          /\ ~heavy_ret.returned
          /\ hpc \in {"collecting", "unwinding", "raised"}
    /\ (hpc = "raised" /\ ~MetaIssued) =>
          /\ heavy_ret.raised
          /\ \A a \in Agents : futures[a].state = "finished"
          /\ \E a \in Agents : ~futures[a].ok

\* C28's case: the meta-resolver call is under way with the responses of
\* the three agents, each with a response of its own.
C28_Witness ==
    /\ hpc = "meta"
    /\ futures["coder"].content = "answer"
    /\ futures["reviewer"].content = ""
    /\ futures["optimizer"].content = "answer"
    /\ Len(meta_messages) = 3

\* C29: when compress_session(d, "always") has returned a record,
\* compress_session of that record with "always" returns the same record,
\* and a history entry of the first result is in the second one, unchanged.
C29_ForcedCompressionIdempotent ==
    (cmode = "always" /\ cout.status = "returned") =>
        LET again == compress_session(cout.data, "always")
        IN /\ again.status = "returned"
           /\ again.data = cout.data
           /\ Key_history \in DOMAIN cout.data =>
                 /\ Key_history \in DOMAIN again.data
                 /\ again.data[Key_history] = cout.data[Key_history]

\* C30: self.messages holds user and assistant turns only, in strict
\* alternation starting with a user turn, whatever the outcome of the chat
\* calls made so far was.
C30_HistoryAlternates ==
    \A i \in 1..Len(self_messages) :
        self_messages[i].role = (IF i % 2 = 1 THEN "user" ELSE "assistant")

=============================================================================
